---------------------------- MODULE Spec2Model ----------------------------
(***************************************************************************)
(* Bill D'Bettabody PWA front end: the API client (BillAPI), the mock data *)
(* store (MOCK_DATA / getMockData), the app controller (BillApp) and the   *)
(* two view controllers (Dashboard, SessionPreview), as state machines.    *)
(*                                                                         *)
(* JavaScript values are tagged records; a JavaScript string is a sequence *)
(* of atoms (an atom is a run of characters that no operation of the       *)
(* program splits), so that concatenation, startsWith, endsWith, includes, *)
(* JSON.stringify and JSON.parse are computed, not assumed.                *)
(***************************************************************************)
EXTENDS Integers, Sequences, FiniteSets, TLC

(***************************************************************************)
(* Bounds of the model.                                                    *)
(***************************************************************************)
\* JSON.parse recognises the numerals 0..MaxNum.
MaxNum == 60
\* API client calls made in one run of the API client specification.
MaxCalls == 2
\* Length of the step lists drawn for the Session Preview's derivations.
MaxSteps == 3
\* Length of the step lists drawn for the duration estimate.
MaxTimed == 2
\* Calls of navigateTo, and notifications emitted, in one run of the
\* navigation specification.
MaxPushes == 2
MaxNotified == 3

(***************************************************************************)
(* JavaScript values.                                                      *)
(***************************************************************************)
Undef == [t |-> "undefined"]
Null == [t |-> "null"]
Bool(b) == [t |-> "bool", b |-> b]
Num(n) == [t |-> "num", n |-> n]
Str(s) == [t |-> "str", s |-> s]
Arr(items) == [t |-> "arr", a |-> items]
Obj(fields) == [t |-> "obj", f |-> fields]
F(key, val) == [k |-> key, v |-> val]

\* ToBoolean: what `if (x)`, `!x`, `x && y` and `x || y` test.
Truthy(v) ==
  CASE v.t = "undefined" -> FALSE
    [] v.t = "null" -> FALSE
    [] v.t = "bool" -> v.b
    [] v.t = "num" -> v.n # 0
    [] v.t = "str" -> v.s # <<>>
    [] OTHER -> TRUE

\* x.key: undefined when the property is missing; reading a property of
\* null or undefined throws a TypeError (CanGet is FALSE).
CanGet(o) == o.t \notin {"null", "undefined"}
HasField(o, key) == o.t = "obj" /\ \E i \in 1..Len(o.f) : o.f[i].k = key
Get(o, key) ==
  IF HasField(o, key)
    THEN o.f[CHOOSE i \in 1..Len(o.f) : o.f[i].k = key].v
    ELSE Undef

(***************************************************************************)
(* Strings.                                                                *)
(***************************************************************************)
StartsWith(s, p) == Len(p) <= Len(s) /\ SubSeq(s, 1, Len(p)) = p
EndsWith(s, p) == Len(p) <= Len(s) /\ SubSeq(s, Len(s) - Len(p) + 1, Len(s)) = p
Includes(s, p) ==
  \E i \in 1..(Len(s) - Len(p) + 1) : SubSeq(s, i, i + Len(p) - 1) = p

(***************************************************************************)
(* JSON.stringify and JSON.parse, on token sequences.  The structural      *)
(* tokens are { } [ ] , : and the quote; every other atom is content.      *)
(***************************************************************************)
Q == "\""
NumTok(n) == ToString(n)
IsNumTok(tok) == \E n \in 0..MaxNum : NumTok(n) = tok
NumOfTok(tok) == CHOOSE n \in 0..MaxNum : NumTok(n) = tok

RECURSIVE JSONstringify(_)
RECURSIVE StringifyItems(_)
RECURSIVE StringifyFields(_)

\* Array elements: undefined is written as null.
StringifyItems(items) ==
  IF items = <<>> THEN <<>>
  ELSE LET h == IF Head(items).t = "undefined" THEN Null ELSE Head(items)
       IN JSONstringify(h)
            \o (IF Len(items) > 1 THEN <<",">> ELSE <<>>)
            \o StringifyItems(Tail(items))

\* Object members: a member whose value is undefined is left out.
StringifyFields(fields) ==
  LET kept == SelectSeq(fields, LAMBDA m : m.v.t # "undefined")
  IN IF kept = <<>> THEN <<>>
     ELSE <<Q, Head(kept).k, Q, ":">> \o JSONstringify(Head(kept).v)
            \o (IF Len(kept) > 1 THEN <<",">> ELSE <<>>)
            \o StringifyFields(Tail(kept))

\* JSON.stringify(v) as localStorage.setItem stores it: setItem converts its
\* argument with String(), so the undefined that JSON.stringify(undefined)
\* returns is stored as the text "undefined".
JSONstringify(v) ==
  CASE v.t = "undefined" -> <<"undefined">>
    [] v.t = "null" -> <<"null">>
    [] v.t = "bool" -> IF v.b THEN <<"true">> ELSE <<"false">>
    [] v.t = "num" -> <<NumTok(v.n)>>
    [] v.t = "str" -> <<Q>> \o v.s \o <<Q>>
    [] v.t = "arr" -> <<"[">> \o StringifyItems(v.a) \o <<"]">>
    [] v.t = "obj" -> <<"{">> \o StringifyFields(v.f) \o <<"}">>

ParseFail == [ok |-> FALSE, v |-> Undef, next |-> 0]
ParseOk(val, nxt) == [ok |-> TRUE, v |-> val, next |-> nxt]

\* A later member with the same key replaces the earlier one.
SetField(fields, key, val) ==
  IF \E i \in 1..Len(fields) : fields[i].k = key
    THEN [i \in 1..Len(fields) |->
            IF fields[i].k = key THEN F(key, val) ELSE fields[i]]
    ELSE Append(fields, F(key, val))

RECURSIVE ParseValue(_, _)
RECURSIVE ParseElements(_, _, _)
RECURSIVE ParseMembers(_, _, _)

\* "..." from the quote at position i.
ParseString(toks, i) ==
  IF i > Len(toks) \/ toks[i] # Q THEN ParseFail
  ELSE IF \E j \in (i + 1)..Len(toks) : toks[j] = Q
    THEN LET j == CHOOSE j \in (i + 1)..Len(toks) :
                    /\ toks[j] = Q
                    /\ \A m \in (i + 1)..(j - 1) : toks[m] # Q
         IN ParseOk(Str(SubSeq(toks, i + 1, j - 1)), j + 1)
    ELSE ParseFail

\* value (, value)* ] with the first value at position i.
ParseElements(toks, i, acc) ==
  LET r == ParseValue(toks, i)
  IN IF ~r.ok \/ r.next > Len(toks) THEN ParseFail
     ELSE IF toks[r.next] = "]" THEN ParseOk(Arr(Append(acc, r.v)), r.next + 1)
     ELSE IF toks[r.next] = "," THEN ParseElements(toks, r.next + 1, Append(acc, r.v))
     ELSE ParseFail

\* "key" : value (, "key" : value)* } with the first key at position i.
ParseMembers(toks, i, acc) ==
  LET key == ParseString(toks, i)
  IN IF ~key.ok \/ key.next > Len(toks) \/ Len(key.v.s) # 1 THEN ParseFail
     ELSE IF toks[key.next] # ":" THEN ParseFail
     ELSE LET r == ParseValue(toks, key.next + 1)
              fields == SetField(acc, key.v.s[1], r.v)
          IN IF ~r.ok \/ r.next > Len(toks) THEN ParseFail
             ELSE IF toks[r.next] = "}" THEN ParseOk(Obj(fields), r.next + 1)
             ELSE IF toks[r.next] = "," THEN ParseMembers(toks, r.next + 1, fields)
             ELSE ParseFail

ParseValue(toks, i) ==
  IF i > Len(toks) THEN ParseFail
  ELSE CASE toks[i] = "null" -> ParseOk(Null, i + 1)
         [] toks[i] = "true" -> ParseOk(Bool(TRUE), i + 1)
         [] toks[i] = "false" -> ParseOk(Bool(FALSE), i + 1)
         [] toks[i] = Q -> ParseString(toks, i)
         [] toks[i] = "[" ->
              IF i < Len(toks) /\ toks[i + 1] = "]" THEN ParseOk(Arr(<<>>), i + 2)
              ELSE ParseElements(toks, i + 1, <<>>)
         [] toks[i] = "{" ->
              IF i < Len(toks) /\ toks[i + 1] = "}" THEN ParseOk(Obj(<<>>), i + 2)
              ELSE ParseMembers(toks, i + 1, <<>>)
         [] OTHER -> IF IsNumTok(toks[i]) THEN ParseOk(Num(NumOfTok(toks[i])), i + 1)
                     ELSE ParseFail

\* JSON.parse(text): ok = FALSE is the SyntaxError it throws.
JSONparse(text) ==
  LET r == ParseValue(text, 1)
  IN IF r.ok /\ r.next = Len(text) + 1 THEN [ok |-> TRUE, v |-> r.v]
     ELSE [ok |-> FALSE, v |-> Undef]

(***************************************************************************)
(* Mock data store: MOCK_DATA and getMockData.                             *)
(***************************************************************************)
MOCK_profile ==
  Obj(<<F("client_id", Str(<<"cli_demo">>)),
        F("first_name", Str(<<"Demo">>)),
        F("last_name", Str(<<"User">>)),
        F("email", Str(<<"demo@billdbet.com">>)),
        F("timezone", Str(<<"Europe/London">>)),
        F("sex", Str(<<"M">>)),
        F("age_years", Num(35)),
        F("height_cm", Num(180)),
        F("weight_kg", Num(82)),
        F("training_experience", Str(<<"2-3 years">>)),
        F("primary_background", Str(<<"Recreational gym-goer">>)),
        F("typical_sessions_per_week_last_3_months", Num(3)),
        F("goals", Str(<<"Build strength, improve body composition, feel better">>)),
        F("goal_primary", Str(<<"Strength">>)),
        F("goal_secondary", Str(<<"Body composition">>)),
        F("equipment_gym", Str(<<"Full commercial gym access">>)),
        F("sessions_completed", Num(47)),
        F("current_phase", Str(<<"Strength Foundation - Week 4">>))>>)

MOCK_nutrition ==
  Obj(<<F("calories", Num(2400)),
        F("protein", Num(180)),
        F("carbs", Num(240)),
        F("fats", Num(80)),
        F("hydration_l", Num(3))>>)

MOCK_todaySession ==
  Obj(<<F("session_id", Str(<<"sess_20260121_001">>)),
        F("client_id", Str(<<"cli_demo">>)),
        F("plan_id", Str(<<"plan_2026_q1">>)),
        F("block_id", Str(<<"block_strength_foundation">>)),
        F("week_id", Str(<<"week_4">>)),
        F("week", Num(4)),
        F("day", Num(2)),
        F("session_date", Str(<<"2026-01-21">>)),
        F("session_day_of_week", Str(<<"Tuesday">>)),
        F("phase", Str(<<"Strength Foundation">>)),
        F("location", Str(<<"gym">>)),
        F("focus", Str(<<"Lower Body Strength + Posterior Chain">>)),
        F("estimated_duration_minutes", Num(55)),
        F("intended_intensity_rpe", Num(8)),
        F("session_status", Str(<<"scheduled">>))>>)

step_001 ==
  Obj(<<F("step_id", Str(<<"step_001">>)),
        F("session_id", Str(<<"sess_20260121_001">>)),
        F("step_order", Num(1)),
        F("segment_type", Str(<<"warmup">>)),
        F("step_type", Str(<<"mobility">>)),
        F("exercise_name", Str(<<"Hip Hinge Mobility Drill">>)),
        F("duration_type", Str(<<"time">>)),
        F("duration_value", Num(5)),
        F("target_type", Str(<<"duration">>)),
        F("target_value", Str(<<"5 minutes easy flow">>)),
        F("sets", Num(1)),
        F("reps", Null),
        F("notes_coach", Str(<<"Focus on hip flexion pattern, not rushing">>))>>)

step_002 ==
  Obj(<<F("step_id", Str(<<"step_002">>)),
        F("session_id", Str(<<"sess_20260121_001">>)),
        F("step_order", Num(2)),
        F("segment_type", Str(<<"warmup">>)),
        F("step_type", Str(<<"pulse_raise">>)),
        F("exercise_name", Str(<<"Assault", " ", "Bike">>)),
        F("duration_type", Str(<<"time">>)),
        F("duration_value", Num(6)),
        F("target_type", Str(<<"hr_zone">>)),
        F("target_value", Str(<<"Zone 2 (easy conversation pace)">>)),
        F("sets", Num(1)),
        F("reps", Null),
        F("notes_coach", Str(<<"Build gradually, don't sprint out the gate">>))>>)

step_003 ==
  Obj(<<F("step_id", Str(<<"step_003">>)),
        F("session_id", Str(<<"sess_20260121_001">>)),
        F("step_order", Num(3)),
        F("segment_type", Str(<<"warmup">>)),
        F("step_type", Str(<<"activation">>)),
        F("exercise_name", Str(<<"Glute Bridge">>)),
        F("sets", Num(2)),
        F("reps", Num(12)),
        F("load_kg", Num(0)),
        F("tempo_pattern", Str(<<"2-1-2-0">>)),
        F("rest_seconds", Num(30)),
        F("notes_coach", Str(<<"Squeeze at top, don't rush the tempo">>))>>)

step_004 ==
  Obj(<<F("step_id", Str(<<"step_004">>)),
        F("session_id", Str(<<"sess_20260121_001">>)),
        F("step_order", Num(4)),
        F("segment_type", Str(<<"warmup">>)),
        F("step_type", Str(<<"activation">>)),
        F("exercise_name", Str(<<"Band", " Pull-Apart">>)),
        F("sets", Num(2)),
        F("reps", Num(15)),
        F("load_kg", Num(0)),
        F("rest_seconds", Num(30)),
        F("notes_coach", Str(<<"Light band, focus on scapular retraction">>))>>)

step_005 ==
  Obj(<<F("step_id", Str(<<"step_005">>)),
        F("session_id", Str(<<"sess_20260121_001">>)),
        F("step_order", Num(5)),
        F("segment_type", Str(<<"main">>)),
        F("step_type", Str(<<"strength">>)),
        F("exercise_name", Str(<<"Barbell", " Back Squat">>)),
        F("sets", Num(4)),
        F("reps", Num(6)),
        F("load_kg", Num(100)),
        F("tempo_pattern", Str(<<"3-0-1-0">>)),
        F("rest_seconds", Num(180)),
        F("target_type", Str(<<"rpe">>)),
        F("target_value", Num(8)),
        F("notes_coach", Str(<<"Control descent, explode up. Leave 2 reps in tank.">>)),
        F("pattern_type", Str(<<"straight">>)),
        F("has_pb", Bool(TRUE))>>)

step_006 ==
  Obj(<<F("step_id", Str(<<"step_006">>)),
        F("session_id", Str(<<"sess_20260121_001">>)),
        F("step_order", Num(6)),
        F("segment_type", Str(<<"main">>)),
        F("step_type", Str(<<"strength">>)),
        F("exercise_name", Str(<<"Romanian Deadlift">>)),
        F("sets", Num(3)),
        F("reps", Num(8)),
        F("load_kg", Num(80)),
        F("tempo_pattern", Str(<<"3-1-1-0">>)),
        F("rest_seconds", Num(150)),
        F("target_type", Str(<<"rpe">>)),
        F("target_value", Num(7)),
        F("notes_coach", Str(<<"Feel the hamstring stretch, bar close to legs">>)),
        F("pattern_type", Str(<<"straight">>))>>)

step_007 ==
  Obj(<<F("step_id", Str(<<"step_007">>)),
        F("session_id", Str(<<"sess_20260121_001">>)),
        F("step_order", Num(7)),
        F("segment_type", Str(<<"main">>)),
        F("step_type", Str(<<"accessory">>)),
        F("exercise_name", Str(<<"Bulgarian", " Split Squat">>)),
        F("sets", Num(3)),
        F("reps", Num(10)),
        F("load_kg", Num(20)),
        F("tempo_pattern", Str(<<"2-0-1-0">>)),
        F("rest_seconds", Num(90)),
        F("notes_coach", Str(<<"Per leg. Torso upright, knee tracking over toes.">>))>>)

step_008 ==
  Obj(<<F("step_id", Str(<<"step_008">>)),
        F("session_id", Str(<<"sess_20260121_001">>)),
        F("step_order", Num(8)),
        F("segment_type", Str(<<"main">>)),
        F("step_type", Str(<<"accessory">>)),
        F("exercise_name", Str(<<"Leg", " ", "Curl">>)),
        F("sets", Num(3)),
        F("reps", Num(12)),
        F("load_kg", Num(40)),
        F("tempo_pattern", Str(<<"2-1-2-0">>)),
        F("rest_seconds", Num(90)),
        F("notes_coach", Str(<<"Controlled reps, full range of motion">>))>>)

step_009 ==
  Obj(<<F("step_id", Str(<<"step_009">>)),
        F("session_id", Str(<<"sess_20260121_001">>)),
        F("step_order", Num(9)),
        F("segment_type", Str(<<"main">>)),
        F("step_type", Str(<<"accessory">>)),
        F("exercise_name", Str(<<"Standing Calf Raise">>)),
        F("sets", Num(3)),
        F("reps", Num(15)),
        F("load_kg", Num(60)),
        F("rest_seconds", Num(60)),
        F("notes_coach", Str(<<"Full stretch at bottom, squeeze at top">>))>>)

step_010 ==
  Obj(<<F("step_id", Str(<<"step_010">>)),
        F("session_id", Str(<<"sess_20260121_001">>)),
        F("step_order", Num(10)),
        F("segment_type", Str(<<"cooldown">>)),
        F("step_type", Str(<<"breathing">>)),
        F("exercise_name", Str(<<"Box", " Breathing">>)),
        F("duration_type", Str(<<"time">>)),
        F("duration_value", Num(3)),
        F("sets", Num(1)),
        F("notes_coach", Str(<<"4 seconds in, hold 4, out 4, hold 4. Calm the system.">>))>>)

step_011 ==
  Obj(<<F("step_id", Str(<<"step_011">>)),
        F("session_id", Str(<<"sess_20260121_001">>)),
        F("step_order", Num(11)),
        F("segment_type", Str(<<"cooldown">>)),
        F("step_type", Str(<<"stretch">>)),
        F("exercise_name", Str(<<"Hamstring Stretch">>)),
        F("duration_type", Str(<<"time">>)),
        F("duration_value", Num(2)),
        F("sets", Num(1)),
        F("notes_coach", Str(<<"Per leg, gentle hold, no bouncing">>))>>)

step_012 ==
  Obj(<<F("step_id", Str(<<"step_012">>)),
        F("session_id", Str(<<"sess_20260121_001">>)),
        F("step_order", Num(12)),
        F("segment_type", Str(<<"cooldown">>)),
        F("step_type", Str(<<"mobility">>)),
        F("exercise_name", Str(<<"Thoracic Rotation">>)),
        F("duration_type", Str(<<"time">>)),
        F("duration_value", Num(2)),
        F("sets", Num(1)),
        F("notes_coach", Str(<<"Slow, controlled rotations. Feel the mid-back open up.">>))>>)

MOCK_sessionSteps ==
  Arr(<<step_001, step_002, step_003, step_004,
        step_005, step_006, step_007, step_008,
        step_009, step_010, step_011, step_012>>)

MOCK_bests ==
  Arr(<<Obj(<<F("client_id", Str(<<"cli_demo">>)),
              F("exercise_name", Str(<<"Barbell", " Back Squat">>)),
              F("metric_key", Str(<<"e1rm_kg">>)),
              F("current_value", Num(125)),
              F("current_unit", Str(<<"kg">>)),
              F("current_timestamp", Str(<<"2026-01-14">>)),
              F("strength_load_kg", Num(110)),
              F("strength_reps", Num(5))>>),
        Obj(<<F("client_id", Str(<<"cli_demo">>)),
              F("exercise_name", Str(<<"Romanian Deadlift">>)),
              F("metric_key", Str(<<"e1rm_kg">>)),
              F("current_value", Num(105)),
              F("current_unit", Str(<<"kg">>)),
              F("current_timestamp", Str(<<"2026-01-12">>)),
              F("strength_load_kg", Num(90)),
              F("strength_reps", Num(6))>>),
        Obj(<<F("client_id", Str(<<"cli_demo">>)),
              F("exercise_name", Str(<<"Assault", " ", "Bike">>)),
              F("metric_key", Str(<<"max_calories_10min">>)),
              F("current_value", Num(142)),
              F("current_unit", Str(<<"cal">>)),
              F("current_timestamp", Str(<<"2026-01-10">>))>>)>>)

getMockData_AnySessionsPath(endpoint) ==
  IF endpoint = <<"/sessions/", "today">>
    THEN Obj(<<F("session", MOCK_todaySession),
               F("stepCount", Obj(<<F("warmup", Num(4)),
                                    F("main", Num(5)),
                                    F("cooldown", Num(3))>>))>>)
  ELSE IF StartsWith(endpoint, <<"/sessions/">>)
    THEN Obj(<<F("session", MOCK_todaySession), F("steps", MOCK_sessionSteps)>>)
  ELSE IF endpoint = <<"/profile">> THEN MOCK_profile
  ELSE IF endpoint = <<"/nutrition/daily">> THEN MOCK_nutrition
  ELSE IF endpoint = <<"/bests">> THEN MOCK_bests
  ELSE Null

getMockData_MainOfFour(endpoint) ==
  IF endpoint = <<"/sessions/", "today">>
    THEN Obj(<<F("session", MOCK_todaySession),
               F("stepCount", Obj(<<F("warmup", Num(4)),
                                    F("main", Num(4)),
                                    F("cooldown", Num(3))>>))>>)
  ELSE IF StartsWith(endpoint, <<"/sessions/">>) /\ EndsWith(endpoint, <<"/steps">>)
    THEN Obj(<<F("session", MOCK_todaySession), F("steps", MOCK_sessionSteps)>>)
  ELSE IF endpoint = <<"/profile">> THEN MOCK_profile
  ELSE IF endpoint = <<"/nutrition/daily">> THEN MOCK_nutrition
  ELSE IF endpoint = <<"/bests">> THEN MOCK_bests
  ELSE Null

\* getMockData(endpoint): the fixture for the endpoint, or null.
getMockData(endpoint) ==
  IF endpoint = <<"/sessions/", "today">>
    THEN Obj(<<F("session", MOCK_todaySession),
               F("stepCount", Obj(<<F("warmup", Num(4)),
                                    F("main", Num(5)),
                                    F("cooldown", Num(3))>>))>>)
  ELSE IF StartsWith(endpoint, <<"/sessions/">>) /\ EndsWith(endpoint, <<"/steps">>)
    THEN Obj(<<F("session", MOCK_todaySession), F("steps", MOCK_sessionSteps)>>)
  ELSE IF endpoint = <<"/profile">> THEN MOCK_profile
  ELSE IF endpoint = <<"/nutrition/daily">> THEN MOCK_nutrition
  ELSE IF endpoint = <<"/bests">> THEN MOCK_bests
  ELSE Null

(***************************************************************************)
(* API client: the request each BillAPI method makes.                      *)
(***************************************************************************)
\* String conversion of a value inside a template literal.
TemplateString(v) ==
  CASE v.t = "str" -> v.s
    [] v.t = "num" -> <<NumTok(v.n)>>
    [] v.t = "bool" -> IF v.b THEN <<"true">> ELSE <<"false">>
    [] v.t = "null" -> <<"null">>
    [] v.t = "undefined" -> <<"undefined">>
    [] OTHER -> <<"[object Object]">>

\* encodeURIComponent, on the atoms the model's strings are made of.
EncodeAtom(a) ==
  CASE a = "/" -> "%2F"
    [] a = " " -> "%20"
    [] a = "?" -> "%3F"
    [] OTHER -> a
encodeURIComponent(v) ==
  LET s == TemplateString(v) IN [i \in 1..Len(s) |-> EncodeAtom(s[i])]

Request(op, endpoint, method, body) ==
  [op |-> op, endpoint |-> endpoint, method |-> method, body |-> body]

getTodaySession == Request("getTodaySession", <<"/sessions/", "today">>, "GET", Undef)
getSessionSteps(id) ==
  Request("getSessionSteps",
          <<"/sessions/">> \o TemplateString(id) \o <<"/steps">>, "GET", Undef)
logStep(id, stepData) ==
  Request("logStep", <<"/sessions/">> \o TemplateString(id) \o <<"/log-step">>,
          "POST", Str(JSONstringify(stepData)))
addExtraExercise(id, exerciseData) ==
  Request("addExtraExercise",
          <<"/sessions/">> \o TemplateString(id) \o <<"/add-exercise">>,
          "POST", Str(JSONstringify(exerciseData)))
completeSession(id, completionData) ==
  Request("completeSession",
          <<"/sessions/">> \o TemplateString(id) \o <<"/complete">>,
          "POST", Str(JSONstringify(completionData)))
getProfile == Request("getProfile", <<"/profile">>, "GET", Undef)
getDailyNutrition == Request("getDailyNutrition", <<"/nutrition/daily">>, "GET", Undef)
getBests == Request("getBests", <<"/bests">>, "GET", Undef)
searchExercises(query) ==
  Request("searchExercises",
          <<"/exercises/", "search?q=">> \o encodeURIComponent(query), "GET", Undef)
getExerciseDetail(exerciseName) ==
  Request("getExerciseDetail",
          <<"/exercises/">> \o encodeURIComponent(exerciseName), "GET", Undef)
chat(message, id) ==
  Request("chat", <<"/chat">>, "POST",
          Str(JSONstringify(Obj(<<F("message", message), F("session_id", id)>>))))
initialize(client) ==
  Request("initialize", <<"/initialize">>, "POST",
          Str(JSONstringify(Obj(<<F("client_id", client)>>))))

(***************************************************************************)
(* API client: request and mockRequest.                                    *)
(***************************************************************************)
BASE_URL == <<"http://localhost:5000">>

Error(name, message) == [t |-> "error", name |-> name, message |-> message]

\* What fetch can deliver: a rejection (no response at all), or a response
\* with a status and a body.
NetworkFailure == [kind |-> "network"]
Response(status, statusText, body) ==
  [kind |-> "response", status |-> status, statusText |-> statusText, body |-> body]
ResponseOk(resp) == resp.status >= 200 /\ resp.status <= 299

\* request(endpoint, options) up to its first await: in mock mode the call
\* waits for mockRequest's timer; otherwise fetch has been issued once.
requestStart(req, mock) ==
  IF mock
    THEN [req |-> req, pc |-> "mockDelay", url |-> <<>>, attempts |-> 0,
          got |-> Undef, value |-> Undef]
    ELSE [req |-> req, pc |-> "fetching", url |-> BASE_URL \o req.endpoint,
          attempts |-> 1, got |-> Undef, value |-> Undef]

\* mockRequest after its 300 ms delay: one getMockData lookup.
mockRequestSettle(c) ==
  LET data == getMockData(c.req.endpoint)
  IN IF ~Truthy(data)
       THEN [c EXCEPT !.pc = "rejected", !.attempts = @ + 1,
                      !.value = Error("Error",
                                      <<"Mock data not found for: ">> \o c.req.endpoint)]
       ELSE [c EXCEPT !.pc = "resolved", !.attempts = @ + 1, !.value = data]

requestSettle_Retry(c, outcome) ==
  IF outcome.kind = "network" \/ ~ResponseOk(outcome)
    THEN [c EXCEPT !.attempts = @ + 1, !.got = outcome]
    ELSE [c EXCEPT !.pc = "resolved", !.got = outcome,
                   !.value = JSONparse(outcome.body).v]

\* request after fetch settles: the rejection of fetch, the error thrown for
\* a status that is not ok, or the error of response.json() is logged and
\* rethrown; otherwise the parsed body is returned.
requestSettle(c, outcome) ==
  IF outcome.kind = "network"
    THEN [c EXCEPT !.pc = "rejected", !.got = outcome,
                   !.value = Error("TypeError", <<"Failed to fetch">>)]
  ELSE IF ~ResponseOk(outcome)
    THEN [c EXCEPT !.pc = "rejected", !.got = outcome,
                   !.value = Error("Error",
                                   <<"API Error: ", NumTok(outcome.status), " ",
                                     outcome.statusText>>)]
  ELSE IF ~JSONparse(outcome.body).ok
    THEN [c EXCEPT !.pc = "rejected", !.got = outcome,
                   !.value = Error("SyntaxError", <<"Unexpected end of JSON input">>)]
  ELSE [c EXCEPT !.pc = "resolved", !.got = outcome,
                 !.value = JSONparse(outcome.body).v]

(***************************************************************************)
(* Session Preview: what loadSessionSteps and render derive from the step  *)
(* list.  A result with ok = FALSE is a TypeError thrown on the way.       *)
(***************************************************************************)
SetAdd_Append(set, item) == Append(set, item)

\* Set.add: insertion order, no duplicates.
SetAdd(set, item) ==
  IF \E i \in 1..Len(set) : set[i] = item THEN set ELSE Append(set, item)

\* x.includes(s) of a string x; a truthy exercise_name that is not a string
\* has no such method.
HasIncludes(v) == v.t = "str"

\* The body of the forEach of loadSessionSteps, for one step.
stepEquipment(equipment, step) ==
  LET name == Get(step, "exercise_name").s
      e1 == IF Includes(name, <<"Barbell">>) THEN SetAdd(equipment, "Barbell")
            ELSE equipment
      e2 == IF Includes(name, <<"Dumbbell">>) THEN SetAdd(e1, "Dumbbells") ELSE e1
      e3 == IF Includes(name, <<"Machine">>) \/ Includes(name, <<"Leg", " ", "Curl">>)
              THEN SetAdd(e2, "Machines") ELSE e2
      e4 == IF Includes(name, <<"Band">>) THEN SetAdd(e3, "Resistance Bands") ELSE e3
      e5 == IF Includes(name, <<"Bike">>) \/ Includes(name, <<"Assault", " ", "Bike">>)
              THEN SetAdd(e4, "Cardio Equipment") ELSE e4
      e6 == IF Includes(name, <<"Box">>) \/ Includes(name, <<"Bulgarian">>)
              THEN SetAdd(e5, "Bench/Box") ELSE e5
  IN e6

RECURSIVE extractEquipment(_, _)
\* this.steps.forEach(...) of loadSessionSteps over the steps not yet visited:
\* the equipment set when it ends, normally or by a TypeError.
extractEquipment(equipment, rest) ==
  IF rest = <<>> THEN [ok |-> TRUE, equipment |-> equipment]
  ELSE LET step == Head(rest)
       IN IF ~CanGet(step) THEN [ok |-> FALSE, equipment |-> equipment]
          ELSE IF ~Truthy(Get(step, "exercise_name"))
            THEN extractEquipment(equipment, Tail(rest))
          ELSE IF ~HasIncludes(Get(step, "exercise_name"))
            THEN [ok |-> FALSE, equipment |-> equipment]
          ELSE extractEquipment(stepEquipment(equipment, step), Tail(rest))

segmentExercises_ByStepType(steps, segmentType) ==
  SelectSeq(steps, LAMBDA step : Get(step, "step_type") = Str(<<segmentType>>))

\* this.steps.filter(step => step.segment_type === segmentType)
segmentExercises(steps, segmentType) ==
  SelectSeq(steps, LAMBDA step : Get(step, "segment_type") = Str(<<segmentType>>))

\* One step's share of totalMinutes, in sixtieths of a minute.
stepSixtieths(step) ==
  IF Truthy(Get(step, "duration_value")) THEN 60 * Get(step, "duration_value").n
  ELSE IF Truthy(Get(step, "sets")) /\ Truthy(Get(step, "rest_seconds"))
    THEN (30 + Get(step, "rest_seconds").n) * Get(step, "sets").n
  ELSE 0

RECURSIVE totalSixtieths(_)
totalSixtieths(exercises) ==
  IF exercises = <<>> THEN 0
  ELSE stepSixtieths(Head(exercises)) + totalSixtieths(Tail(exercises))

\* Math.round of a total given in sixtieths: halves round up.
MathRound60(total) == (total + 30) \div 60

\* step.target_value.includes('undefined') needs a string.
detailThrows(step) ==
  Truthy(Get(step, "target_value")) /\ ~HasIncludes(Get(step, "target_value"))

RECURSIVE Join(_, _)
Join(parts, sep) ==
  IF parts = <<>> THEN <<>>
  ELSE IF Len(parts) = 1 THEN Head(parts)
  ELSE Head(parts) \o sep \o Join(Tail(parts), sep)

\* getExerciseDetail(step), for a step whose detail does not throw.
\* (the model writes the multiplication sign as " x " and the bullet as " . ")
getExerciseDetailText(step) ==
  LET sets == Get(step, "sets")
      reps == Get(step, "reps")
      dv == Get(step, "duration_value")
      load == Get(step, "load_kg")
      target == Get(step, "target_value")
      p1 == IF Truthy(sets) /\ Truthy(reps)
              THEN <<TemplateString(sets) \o <<" x ">> \o TemplateString(reps)>>
            ELSE IF Truthy(dv) /\ Get(step, "duration_type") = Str(<<"time">>)
              THEN <<TemplateString(dv) \o <<" min">>>>
            ELSE <<>>
      p2 == IF Truthy(load) THEN <<TemplateString(load) \o <<"kg">>>> ELSE <<>>
      p3 == IF Truthy(target) /\ ~Includes(target.s, <<"undefined">>)
              THEN <<target.s>> ELSE <<>>
      parts == p1 \o p2 \o p3
  IN IF Len(parts) > 0 THEN Join(parts, <<" . ">>) ELSE <<"As prescribed">>

NoExercises == [kind |-> "none"]
ExerciseList(items) == [kind |-> "list", items |-> items]

\* renderExerciseSegment(segmentType, ...) over the lists and durations shown
\* so far: the list and the duration of the segment afterwards.  The filter
\* throws on a step that is null; the map throws after the duration is set.
renderExerciseSegment(steps, segmentType, view) ==
  IF \E i \in 1..Len(steps) : ~CanGet(steps[i]) THEN [ok |-> FALSE, view |-> view]
  ELSE LET exercises == segmentExercises(steps, segmentType)
           total == totalSixtieths(exercises)
           timed == IF total > 0
                      THEN [view EXCEPT !.durations[segmentType] =
                                          <<"~", NumTok(MathRound60(total)), " min">>]
                      ELSE view
       IN IF Len(exercises) = 0
            THEN [ok |-> TRUE, view |-> [view EXCEPT !.lists[segmentType] = NoExercises]]
          ELSE IF \E i \in 1..Len(exercises) : detailThrows(exercises[i])
            THEN [ok |-> FALSE, view |-> timed]
          ELSE [ok |-> TRUE,
                view |-> [timed EXCEPT !.lists[segmentType] =
                            ExerciseList([i \in 1..Len(exercises) |->
                              [step |-> exercises[i],
                               name |-> TemplateString(Get(exercises[i], "exercise_name")),
                               detail |-> getExerciseDetailText(exercises[i])]])]]

\* renderEquipment(): an empty set hides the card and leaves the list alone.
renderEquipment(equipment, view) ==
  IF Len(equipment) = 0 THEN [view EXCEPT !.equipmentCard = "none"]
  ELSE [view EXCEPT !.equipmentList = equipment]

\* x || fallback
OrElse(v, fallback) == IF Truthy(v) THEN v ELSE fallback

\* render() of the Session Preview, over the view shown so far.
previewRender(session, steps, equipment, view) ==
  LET header ==
        [view EXCEPT
           !.name = TemplateString(OrElse(Get(session, "phase"), Str(<<"Training Session">>))),
           !.focus = TemplateString(OrElse(Get(session, "focus"), Str(<<>>))),
           !.phase = TemplateString(OrElse(Get(session, "phase"), Str(<<>>))),
           !.location = TemplateString(OrElse(Get(session, "location"), Str(<<"gym">>))),
           !.duration =
             TemplateString(OrElse(Get(session, "estimated_duration_minutes"), Num(45)))
               \o <<" min">>,
           !.intensity =
             <<"RPE ">> \o TemplateString(OrElse(Get(session, "intended_intensity_rpe"), Num(7)))
               \o <<"/10">>]
      w == renderExerciseSegment(steps, "warmup", header)
      m == renderExerciseSegment(steps, "main", w.view)
      c == renderExerciseSegment(steps, "cooldown", m.view)
  IN IF ~w.ok THEN w
     ELSE IF ~m.ok THEN m
     ELSE IF ~c.ok THEN c
     ELSE [ok |-> TRUE, view |-> renderEquipment(equipment, c.view)]

Segments == {"warmup", "main", "cooldown"}

\* The preview page as its HTML delivers it.
BlankPreview ==
  [name |-> <<>>, focus |-> <<>>, phase |-> <<>>, location |-> <<>>,
   duration |-> <<>>, intensity |-> <<>>,
   lists |-> [g \in Segments |-> ExerciseList(<<>>)],
   durations |-> [g \in Segments |-> <<>>],
   equipmentList |-> <<>>, equipmentCard |-> "shown"]

(***************************************************************************)
(* Dashboard: what render derives from the three fetched values.  A result *)
(* with ok = FALSE is a TypeError thrown on the way.                       *)
(***************************************************************************)
\* The today's-session card showing a session, and showing none.
SessionDetails(phase, location, duration, intensity, warmup, main, cooldown) ==
  [kind |-> "session", phase |-> phase, location |-> location,
   duration |-> duration, intensity |-> intensity,
   warmup |-> warmup, main |-> main, cooldown |-> cooldown]
NoSessionDetails == [kind |-> "noSession"]

\* The guard shared by render and onStartSession:
\* this.todaySession && this.todaySession.session
hasSession_AnyResponse(todaySession) == Truthy(todaySession)

hasSession(todaySession) ==
  Truthy(todaySession) /\ Truthy(Get(todaySession, "session"))

\* renderSession(sessionData): the focus is written first; reading a count
\* of a stepCount that is null or undefined throws before the details and
\* the button are touched.
renderSession(sessionData, view) ==
  LET session == Get(sessionData, "session")
      stepCount == Get(sessionData, "stepCount")
      focused == [view EXCEPT !.focus = TemplateString(Get(session, "focus"))]
  IN IF ~CanGet(session) THEN [ok |-> FALSE, view |-> view]
     ELSE IF ~CanGet(stepCount) THEN [ok |-> FALSE, view |-> focused]
     ELSE [ok |-> TRUE,
           view |-> [focused EXCEPT
             !.details =
               SessionDetails(TemplateString(Get(session, "phase")),
                              TemplateString(Get(session, "location")),
                              TemplateString(Get(session, "estimated_duration_minutes")),
                              TemplateString(Get(session, "intended_intensity_rpe")),
                              TemplateString(Get(stepCount, "warmup")),
                              TemplateString(Get(stepCount, "main")),
                              TemplateString(Get(stepCount, "cooldown"))),
             !.startBtn = "block"]]

renderNoSession_KeepsButton(view) == [view EXCEPT !.details = NoSessionDetails]

\* renderNoSession(): the message replaces the details, the button is hidden.
renderNoSession(view) ==
  [view EXCEPT !.details = NoSessionDetails, !.startBtn = "none"]

\* render() of the Dashboard, over the view shown so far.
dashboardRender(profile, todaySession, nutrition, view) ==
  LET dated == [view EXCEPT !.date = "today"]
      named ==
        IF Truthy(profile)
          THEN [dated EXCEPT
                  !.clientName = TemplateString(Get(profile, "first_name")) \o <<" ">>
                                   \o TemplateString(Get(profile, "last_name")),
                  !.sessionsCompleted =
                    TemplateString(OrElse(Get(profile, "sessions_completed"), Num(0))),
                  !.currentWeek =
                    TemplateString(OrElse(Get(profile, "current_phase"),
                                          Str(<<"Starting soon">>)))]
          ELSE dated
      carded ==
        IF hasSession(todaySession)
          THEN renderSession(todaySession, named)
          ELSE [ok |-> TRUE, view |-> renderNoSession(named)]
  IN IF ~carded.ok THEN carded
     ELSE IF Truthy(nutrition)
       THEN [ok |-> TRUE,
             view |-> [carded.view EXCEPT
               !.calories = TemplateString(OrElse(Get(nutrition, "calories"), Num(0))),
               !.protein = TemplateString(OrElse(Get(nutrition, "protein"), Num(0)))
                             \o <<"g">>]]
     ELSE carded

\* The dashboard page as its HTML delivers it.
BlankDashboard ==
  [date |-> "", clientName |-> <<>>, sessionsCompleted |-> <<>>,
   currentWeek |-> <<>>, focus |-> <<>>, details |-> [kind |-> "blank"],
   startBtn |-> "asDelivered", calories |-> <<>>, protein |-> <<>>]

(***************************************************************************)
(* State.                                                                  *)
(***************************************************************************)
VARIABLES
  \* BillApp (one instance per page load) and the browser's localStorage
  sessionId,      \* app.sessionId
  clientId,       \* app.clientId
  activeSession,  \* app.activeSession
  currentStep,    \* app.currentStep
  ls,             \* localStorage: key -> null (no item) or the stored string
  last,           \* the BillApp operation last called: name, argument, outcome
  \* BillAPI
  useMock,        \* api.useMock (API_CONFIG.USE_MOCK_DATA)
  calls,          \* the calls of API client methods, in the order made
  \* SessionPreview (one instance per load of the preview page)
  pSession,       \* sessionPreview.session
  pSteps,         \* sessionPreview.steps
  pEquipment,     \* sessionPreview.equipment
  pPc,            \* where sessionPreview.init stands
  pListeners,     \* whether setupEventListeners has registered the handlers
  pView,          \* what the preview page shows
  \* Dashboard (one instance per load of the dashboard page)
  dProfile,       \* dashboard.profile
  dToday,         \* dashboard.todaySession
  dNutrition,     \* dashboard.nutrition
  dPc,            \* where dashboard.init stands
  dListeners,     \* whether setupEventListeners has registered the handlers
  dView,          \* what the dashboard page shows
  \* The browser
  page,           \* the document shown
  nav,            \* the navigation issued and not yet carried out, or null
  arrival,        \* the navigation that brought the document shown, or null
  appPc,          \* where app.init stands
  overlay,        \* the elements with id bill-loading: their messages
  alertOpen,      \* the message of the alert dialog that is open, or null
  redirectTimer,  \* whether the 2 s timer of the Session Preview is pending
  entries,        \* the session history of the document: the state of each entry
  current,        \* the index of the current entry of the session history
  notified        \* the pages of the bill:navigate events dispatched

appVars == <<sessionId, clientId, activeSession, currentStep, ls, last>>
apiVars == <<useMock, calls>>
previewVars == <<pSession, pSteps, pEquipment, pPc, pListeners, pView>>
dashVars == <<dProfile, dToday, dNutrition, dPc, dListeners, dView>>
browserVars == <<page, nav, arrival, appPc, overlay, alertOpen, redirectTimer>>
historyVars == <<entries, current, notified>>
vars == <<appVars, apiVars, previewVars, dashVars, browserVars, historyVars>>
notApp == <<apiVars, previewVars, dashVars, browserVars, historyVars>>
notApi == <<appVars, previewVars, dashVars, browserVars, historyVars>>
notPreview == <<appVars, apiVars, dashVars, browserVars, historyVars>>

\* new Dashboard(), on the page as delivered.
DashboardConstructor ==
  /\ dProfile = Null
  /\ dToday = Null
  /\ dNutrition = Null
  /\ dPc = "idle"
  /\ dListeners = FALSE
  /\ dView = BlankDashboard

\* No document yet: nothing shown, nothing pending.
NoDocument ==
  /\ page = "about:blank"
  /\ nav = Null
  /\ arrival = Null
  /\ appPc = "idle"
  /\ overlay = <<>>
  /\ alertOpen = Null
  /\ redirectTimer = FALSE
  /\ entries = <<Null>>
  /\ current = 1
  /\ notified = <<>>

\* new SessionPreview(), on the page as delivered.
SessionPreviewConstructor ==
  /\ pSession = Null
  /\ pSteps = <<>>
  /\ pEquipment = <<>>
  /\ pPc = "idle"
  /\ pListeners = FALSE
  /\ pView = BlankPreview

(***************************************************************************)
(* localStorage.                                                           *)
(***************************************************************************)
LSKeys ==
  {"bill_session", "bill_active_session", "bill_current_step",
   "chat_context", "active_session_steps"}

\* getItem: null when there is no item.
getItem(store, key) == store[key]
setItem(store, key, text) == [store EXCEPT ![key] = Str(text)]
removeItem(store, key) == [store EXCEPT ![key] = Null]

EmptyStorage == [key \in LSKeys |-> Null]

\* A stored string that a read hands to JSON.parse (it is not empty) and
\* that JSON.parse rejects.
IsCorruptItem(item) == item.t = "str" /\ Truthy(item) /\ ~JSONparse(item.s).ok

(***************************************************************************)
(* BillApp: session identity.                                              *)
(***************************************************************************)
\* constructor: all four fields null.
BillAppConstructor ==
  /\ sessionId' = Null
  /\ clientId' = Null
  /\ activeSession' = Null
  /\ currentStep' = Null

\* loadSession(): [sessionId, clientId, ls] after the call.  The property
\* reads of a parsed null throw inside the try block, so that case ends in
\* the catch like a SyntaxError; sessionId is assigned before clientId.
loadSession ==
  LET stored == getItem(ls, "bill_session")
      parsed == JSONparse(stored.s)
  IN IF ~Truthy(stored)
       THEN [sessionId |-> sessionId, clientId |-> clientId, ls |-> ls]
     ELSE IF parsed.ok /\ CanGet(parsed.v)
       THEN [sessionId |-> Get(parsed.v, "session_id"),
             clientId |-> Get(parsed.v, "client_id"),
             ls |-> ls]
     ELSE [sessionId |-> sessionId, clientId |-> clientId,
           ls |-> removeItem(ls, "bill_session")]

\* saveSession(sessionData), stamped created_at = now.
saveSession(sessionData, now) ==
  /\ sessionId' = Get(sessionData, "session_id")
  /\ clientId' = Get(sessionData, "client_id")
  /\ ls' = setItem(ls, "bill_session",
             JSONstringify(Obj(<<F("session_id", Get(sessionData, "session_id")),
                                 F("client_id", Get(sessionData, "client_id")),
                                 F("created_at", Str(<<now>>))>>)))
  /\ UNCHANGED <<activeSession, currentStep>>

clearSession ==
  /\ sessionId' = Null
  /\ clientId' = Null
  /\ activeSession' = Null
  /\ ls' = removeItem(ls, "bill_session")
  /\ UNCHANGED currentStep

(***************************************************************************)
(* BillApp: active session and current step.                               *)
(***************************************************************************)
setActiveSession_MemoryOnly(sessionData) ==
  /\ activeSession' = sessionData
  /\ UNCHANGED <<ls, sessionId, clientId, currentStep>>

setActiveSession_NoStringify(sessionData) ==
  /\ activeSession' = sessionData
  /\ ls' = setItem(ls, "bill_active_session", TemplateString(sessionData))
  /\ UNCHANGED <<sessionId, clientId, currentStep>>

setActiveSession(sessionData) ==
  /\ activeSession' = sessionData
  /\ ls' = setItem(ls, "bill_active_session", JSONstringify(sessionData))
  /\ UNCHANGED <<sessionId, clientId, currentStep>>

\* getActiveSession() of an instance whose activeSession is mem, over the
\* storage store: the value returned and activeSession after the call.
getActiveSession(mem, store) ==
  LET stored == getItem(store, "bill_active_session")
      parsed == JSONparse(stored.s)
  IN IF Truthy(mem) THEN [ret |-> mem, mem |-> mem]
     ELSE IF Truthy(stored) /\ parsed.ok THEN [ret |-> parsed.v, mem |-> parsed.v]
     ELSE [ret |-> Null, mem |-> mem]

clearActiveSession_AlsoStep ==
  /\ activeSession' = Null
  /\ currentStep' = Null
  /\ ls' = removeItem(removeItem(ls, "bill_active_session"), "bill_current_step")
  /\ UNCHANGED <<sessionId, clientId>>

clearActiveSession ==
  /\ activeSession' = Null
  /\ ls' = removeItem(ls, "bill_active_session")
  /\ UNCHANGED <<sessionId, clientId, currentStep>>

setCurrentStep_MemoryOnly(stepData) ==
  /\ currentStep' = stepData
  /\ UNCHANGED <<ls, sessionId, clientId, activeSession>>

setCurrentStep(stepData) ==
  /\ currentStep' = stepData
  /\ ls' = setItem(ls, "bill_current_step", JSONstringify(stepData))
  /\ UNCHANGED <<sessionId, clientId, activeSession>>

getCurrentStep(mem, store) ==
  LET stored == getItem(store, "bill_current_step")
      parsed == JSONparse(stored.s)
  IN IF Truthy(mem) THEN [ret |-> mem, mem |-> mem]
     ELSE IF Truthy(stored) /\ parsed.ok THEN [ret |-> parsed.v, mem |-> parsed.v]
     ELSE [ret |-> Null, mem |-> mem]

clearCurrentStep ==
  /\ currentStep' = Null
  /\ ls' = removeItem(ls, "bill_current_step")
  /\ UNCHANGED <<sessionId, clientId, activeSession>>

(***************************************************************************)
(* The app controller driven by its callers: any sequence of BillApp       *)
(* operations and page reloads over one localStorage.                      *)
(***************************************************************************)
\* Payloads handed to setActiveSession and setCurrentStep: JSON values, as
\* the API client returns them (a parsed response body or a fixture).
SessionA == Obj(<<F("session_id", Str(<<"sess_a">>)), F("phase", Null)>>)
SessionB == Obj(<<F("session_id", Str(<<"sess_b">>)), F("week", Num(4))>>)
Payloads == {Null, Num(0), Str(<<>>), SessionA, SessionB}

\* Arguments of saveSession.
SessionDatas ==
  {Obj(<<F("session_id", Str(<<"remote_1">>)), F("client_id", Str(<<"cli_demo">>))>>),
   Obj(<<F("session_id", Str(<<"remote_2">>))>>)}
Timestamps == {"2026-01-21T09:00:00.000Z"}

\* What localStorage may hold when the application starts: nothing, a
\* truncated JSON text, or an empty string.
TruncatedText == <<"{", Q, "session_id", Q>>
InitialItems == {Null, Str(TruncatedText), Str(<<>>)}

Called(op, arg, ret) == [op |-> op, arg |-> arg, ret |-> ret]

InitApp ==
  /\ sessionId = Null
  /\ clientId = Null
  /\ activeSession = Null
  /\ currentStep = Null
  /\ ls \in {s \in [LSKeys -> InitialItems] :
               s["chat_context"] = Null /\ s["active_session_steps"] = Null}
  /\ last = Called("constructor", Undef, Undef)
  /\ useMock = TRUE
  /\ calls = <<>>
  /\ SessionPreviewConstructor
  /\ DashboardConstructor
  /\ NoDocument

\* A page load: a fresh BillApp over the same localStorage.
Reload ==
  /\ BillAppConstructor
  /\ last' = Called("constructor", Undef, Undef)
  /\ UNCHANGED ls
  /\ UNCHANGED notApp

LoadSession ==
  /\ sessionId' = loadSession.sessionId
  /\ clientId' = loadSession.clientId
  /\ ls' = loadSession.ls
  /\ last' = Called("loadSession", Undef, Undef)
  /\ UNCHANGED <<activeSession, currentStep>>
  /\ UNCHANGED notApp

SaveSession ==
  \E d \in SessionDatas, now \in Timestamps :
    /\ saveSession(d, now)
    /\ last' = Called("saveSession", d, Undef)
    /\ UNCHANGED notApp

ClearSession ==
  /\ clearSession
  /\ last' = Called("clearSession", Undef, Undef)
  /\ UNCHANGED notApp

SetActiveSession ==
  \E d \in Payloads :
    /\ setActiveSession(d)
    /\ last' = Called("setActiveSession", d, Undef)
    /\ UNCHANGED notApp

GetActiveSession ==
  LET r == getActiveSession(activeSession, ls)
  IN /\ activeSession' = r.mem
     /\ last' = Called("getActiveSession", Undef, r.ret)
     /\ UNCHANGED <<sessionId, clientId, currentStep, ls>>
     /\ UNCHANGED notApp

ClearActiveSession ==
  /\ clearActiveSession
  /\ last' = Called("clearActiveSession", Undef, Undef)
  /\ UNCHANGED notApp

SetCurrentStep ==
  \E d \in Payloads :
    /\ setCurrentStep(d)
    /\ last' = Called("setCurrentStep", d, Undef)
    /\ UNCHANGED notApp

GetCurrentStep ==
  LET r == getCurrentStep(currentStep, ls)
  IN /\ currentStep' = r.mem
     /\ last' = Called("getCurrentStep", Undef, r.ret)
     /\ UNCHANGED <<sessionId, clientId, activeSession, ls>>
     /\ UNCHANGED notApp

ClearCurrentStep ==
  /\ clearCurrentStep
  /\ last' = Called("clearCurrentStep", Undef, Undef)
  /\ UNCHANGED notApp

NextApp ==
  \/ Reload
  \/ LoadSession
  \/ SaveSession
  \/ ClearSession
  \/ SetActiveSession
  \/ GetActiveSession
  \/ ClearActiveSession
  \/ SetCurrentStep
  \/ GetCurrentStep
  \/ ClearCurrentStep

SpecApp == InitApp /\ [][NextApp]_vars

(***************************************************************************)
(* The API client driven by its callers: up to MaxCalls calls, each        *)
(* settled by the mock store's timer or by the network.                    *)
(***************************************************************************)
FixtureId == Str(<<"sess_20260121_001">>)
SessionIds == {FixtureId, Str(<<"does-not-exist">>), Str(<<"x", "/steps">>)}
Queries == {Str(<<"squat">>), Str(<<"..", "/", "profile">>)}
StepResult == Obj(<<F("step_id", Str(<<"step_005">>)), F("reps", Num(6))>>)

\* The calls drawn.  Without the mock store the endpoint is only sent, never
\* inspected, so one argument per operation is drawn there.
ApiRequests(mock) ==
  LET ids == IF mock THEN SessionIds ELSE {FixtureId}
      queries == IF mock THEN Queries ELSE {Str(<<"squat">>)}
  IN {getTodaySession, getProfile, getDailyNutrition, getBests,
      chat(Str(<<"hello">>), FixtureId), initialize(Null)}
       \cup {getSessionSteps(id) : id \in ids}
       \cup {logStep(id, StepResult) : id \in ids}
       \cup {addExtraExercise(id, StepResult) : id \in ids}
       \cup {completeSession(id, StepResult) : id \in ids}
       \cup {searchExercises(q) : q \in queries}
       \cup {getExerciseDetail(q) : q \in queries}

\* What the network may answer.
FetchOutcomes ==
  {NetworkFailure,
   Response(500, "Internal Server Error", <<>>),
   Response(200, "OK", JSONstringify(Obj(<<F("ok", Bool(TRUE))>>))),
   Response(200, "OK", TruncatedText)}

InitApi ==
  /\ sessionId = Null
  /\ clientId = Null
  /\ activeSession = Null
  /\ currentStep = Null
  /\ ls = EmptyStorage
  /\ last = Called("constructor", Undef, Undef)
  /\ useMock \in BOOLEAN
  /\ calls = <<>>
  /\ SessionPreviewConstructor
  /\ DashboardConstructor
  /\ NoDocument

ApiCall ==
  /\ Len(calls) < MaxCalls
  /\ \E req \in ApiRequests(useMock) :
       calls' = Append(calls, requestStart(req, useMock))
  /\ UNCHANGED <<useMock, notApi>>

\* The timers of mockRequest all run 300 ms: they fire in the order set.
MockTimerFires ==
  \E i \in 1..Len(calls) :
    /\ calls[i].pc = "mockDelay"
    /\ \A j \in 1..(i - 1) : calls[j].pc # "mockDelay"
    /\ calls' = [calls EXCEPT ![i] = mockRequestSettle(@)]
    /\ UNCHANGED <<useMock, notApi>>

FetchSettles ==
  \E i \in 1..Len(calls), outcome \in FetchOutcomes :
    /\ calls[i].pc = "fetching"
    /\ calls' = [calls EXCEPT ![i] = requestSettle(@, outcome)]
    /\ UNCHANGED <<useMock, notApi>>

NextApi == ApiCall \/ MockTimerFires \/ FetchSettles

SpecApi == InitApi /\ [][NextApi]_vars

(***************************************************************************)
(* The Session Preview's derivations on their own: a step list is loaded,  *)
(* the equipment is extracted from it, and the page is rendered.           *)
(***************************************************************************)
SegmentTypes == {"warmup", "main", "cooldown", "stretch"}
DrawnStep(order, segmentType) ==
  Obj(<<F("step_order", Num(order)),
        F("segment_type", Str(<<segmentType>>)),
        F("exercise_name", Str(<<"Band", " Pull-Apart">>))>>)
DrawnSteps == {DrawnStep(k, g) : k \in 1..MaxSteps, g \in SegmentTypes}
StepLists == UNION {[1..n -> DrawnSteps] : n \in 0..MaxSteps}

\* A step with the members given, a member drawn as undefined left out.
StepOf(members) == Obj(SelectSeq(members, LAMBDA m : m.v.t # "undefined"))

\* Steps of the main segment drawn for the duration estimate: with or
\* without duration_value, sets and rest_seconds, zero included.
TimedSteps ==
  {StepOf(<<F("segment_type", Str(<<"main">>)),
            F("exercise_name", Str(<<"Leg", " ", "Curl">>)),
            F("duration_value", dv), F("sets", sets), F("rest_seconds", rest)>>) :
     dv \in {Undef, Num(0), Num(5)},
     sets \in {Undef, Num(2), Num(4)},
     rest \in {Undef, Num(0), Num(45), Num(180)}}
TimedLists == UNION {[1..n -> TimedSteps] : n \in 1..MaxTimed}

\* Steps drawn for the equipment inference: names with one keyword, with
\* two keywords of one label, with keywords of two labels, with none, and
\* a step without a name.
ExerciseNames ==
  {Str(<<"Barbell", " Back Squat">>), Str(<<"Dumbbell", " Row">>),
   Str(<<"Leg", " ", "Curl">>), Str(<<"Leg Press ", "Machine">>),
   Str(<<"Assault", " ", "Bike">>), Str(<<"Barbell", " ", "Box", " Squat">>),
   Str(<<"Plank">>), Undef}
NamedSteps ==
  {StepOf(<<F("segment_type", Str(<<"main">>)), F("exercise_name", name)>>) :
     name \in ExerciseNames}
NamedLists == UNION {[1..n -> NamedSteps] : n \in 1..MaxSteps}

\* Steps drawn for the exercise detail: each part of the prescription
\* absent or given, a load of 0 as on the bodyweight steps of the fixture,
\* and a target text with and without the placeholder.
DetailSteps ==
  {StepOf(<<F("segment_type", Str(<<"main">>)), F("exercise_name", Str(<<"Plank">>)),
            F("sets", sets), F("reps", reps),
            F("duration_value", dv), F("duration_type", dt),
            F("load_kg", load), F("target_value", target)>>) :
     sets \in {Undef, Num(3)}, reps \in {Undef, Num(10)},
     dv \in {Undef, Num(5)}, dt \in {Undef, Str(<<"time">>), Str(<<"distance">>)},
     load \in {Undef, Num(0), Num(20)},
     target \in {Undef, Str(<<"RPE 8">>), Str(<<"undefined", " reps">>)}}
DetailLists == {<<step>> : step \in DetailSteps}

PreviewInputs == StepLists \cup TimedLists \cup NamedLists \cup DetailLists

InitPreview ==
  /\ sessionId = Null
  /\ clientId = Null
  /\ activeSession = SessionA
  /\ currentStep = Null
  /\ ls = EmptyStorage
  /\ last = Called("constructor", Undef, Undef)
  /\ useMock = TRUE
  /\ calls = <<>>
  /\ pSession = SessionA
  /\ pSteps \in PreviewInputs
  /\ pEquipment = <<>>
  /\ pPc = "stepsLoaded"
  /\ pListeners = FALSE
  /\ pView = BlankPreview
  /\ DashboardConstructor
  /\ NoDocument

\* The forEach of loadSessionSteps, over the equipment set of the instance;
\* a second run over the same steps adds to the same set.
ExtractEquipment ==
  /\ pPc \in {"stepsLoaded", "equipped"}
  /\ pEquipment' = extractEquipment(pEquipment, pSteps).equipment
  /\ pPc' = IF ~extractEquipment(pEquipment, pSteps).ok THEN "failed"
            ELSE IF pPc = "stepsLoaded" THEN "equipped"
            ELSE "equippedAgain"
  /\ UNCHANGED <<pSession, pSteps, pListeners, pView, notPreview>>

\* render()
Render ==
  /\ pPc \in {"equipped", "equippedAgain"}
  /\ pView' = previewRender(pSession, pSteps, pEquipment, pView).view
  /\ pPc' = IF previewRender(pSession, pSteps, pEquipment, pView).ok
              THEN "rendered" ELSE "failed"
  /\ UNCHANGED <<pSession, pSteps, pEquipment, pListeners, notPreview>>

NextPreview == ExtractEquipment \/ Render

SpecPreview == InitPreview /\ [][NextPreview]_vars

(***************************************************************************)
(* The pages in the browser: the dashboard and the Session Preview are     *)
(* loaded, fetch, render, and hand over to one another through             *)
(* localStorage and window.location.                                       *)
(***************************************************************************)
DashboardPage == "/dashboard.html"
PreviewPage == "/session-preview.html"
ChatPage == "/chat.html"
ActivePage == "/session-active.html"

\* window.location.href = to, issued by cause; carried is the session a
\* Start Session of the dashboard handed over, kept for the properties.
Navigation(to, cause, carried) == [to |-> to, cause |-> cause, carried |-> carried]

\* alert(`Error: ${message}`)
showError(message) == Str(<<"Error: ", message>>)

showLoading_Stacking(doc, message) == Append(doc, message)

\* showLoading(message): an existing overlay is removed, one is appended.
showLoading(doc, message) ==
  Append(IF doc = <<>> THEN doc ELSE Tail(doc), message)
hideLoading_Keeps(doc) == doc

\* hideLoading(): the overlay, if there is one, is removed.
hideLoading(doc) == IF doc = <<>> THEN doc ELSE Tail(doc)

\* SessionPreview.init up to its first await or its return, for the value
\* getActiveSession returned: the alert opened, the overlay, the fetch issued.
sessionPreviewInit_LoadingFirst(session, mock) ==
  IF ~Truthy(session)
    THEN [pc |-> "noSessionAlert",
          alert |-> showError("No session selected. Returning to dashboard."),
          overlay |-> showLoading(<<>>, "Loading session details..."),
          calls |-> <<>>]
    ELSE [pc |-> "loadingSteps", alert |-> Null,
          overlay |-> showLoading(<<>>, "Loading session details..."),
          calls |-> <<requestStart(getSessionSteps(Get(session, "session_id")), mock)>>]

sessionPreviewInit(session, mock) ==
  IF ~Truthy(session)
    THEN [pc |-> "noSessionAlert",
          alert |-> showError("No session selected. Returning to dashboard."),
          overlay |-> <<>>,
          calls |-> <<>>]
    ELSE [pc |-> "loadingSteps", alert |-> Null,
          overlay |-> showLoading(<<>>, "Loading session details..."),
          calls |-> <<requestStart(getSessionSteps(Get(session, "session_id")), mock)>>]

\* What the backend may answer to each call of the two pages.
StepWithDetail ==
  Obj(<<F("step_order", Num(1)), F("segment_type", Str(<<"main">>)),
        F("exercise_name", Str(<<"Barbell", " Back Squat">>)),
        F("sets", Num(4)), F("reps", Num(6)), F("target_value", Str(<<"RPE 8">>))>>)
StepWithNumericTarget ==
  Obj(<<F("step_order", Num(1)), F("segment_type", Str(<<"main">>)),
        F("exercise_name", Str(<<"Barbell", " Back Squat">>)),
        F("target_value", Num(8))>>)
Counts == Obj(<<F("warmup", Num(0)), F("main", Num(1)), F("cooldown", Num(0))>>)
Bodies(op) ==
  CASE op = "getProfile" ->
         {Obj(<<F("first_name", Str(<<"Demo">>)), F("sessions_completed", Num(47))>>)}
    [] op = "getTodaySession" ->
         {Obj(<<F("session", SessionA), F("stepCount", Counts)>>),
          Obj(<<F("session", SessionA)>>),
          Obj(<<F("session", Null)>>)}
    [] op = "getDailyNutrition" ->
         {Obj(<<F("calories", Num(0)), F("protein", Num(50))>>)}
    [] OTHER ->
         {Obj(<<F("steps", Arr(<<StepWithDetail>>))>>),
          Obj(<<F("steps", Arr(<<StepWithNumericTarget>>))>>),
          Obj(<<>>),
          Null}
Outcomes(op) ==
  {Response(200, "OK", JSONstringify(b)) : b \in Bodies(op)}
    \cup (CASE op = "getProfile" -> {NetworkFailure}
            [] op = "getTodaySession" -> {Response(200, "OK", TruncatedText)}
            [] op = "getDailyNutrition" -> {Response(500, "Internal Server Error", <<>>)}
            [] OTHER -> {NetworkFailure})

\* The ways call i can settle now.  The timers of mockRequest all run
\* 300 ms, so they fire in the order the calls were made.
Settlements(i) ==
  IF calls[i].pc = "mockDelay"
    THEN IF \E j \in 1..(i - 1) : calls[j].pc = "mockDelay"
           THEN {}
           ELSE {mockRequestSettle(calls[i])}
  ELSE IF calls[i].pc = "fetching"
    THEN {requestSettle(calls[i], outcome) : outcome \in Outcomes(calls[i].req.op)}
  ELSE {}

\* What localStorage may hold when the browser opens the application.
StoredSessions == {Null, Str(TruncatedText), Str(JSONstringify(SessionB))}
StoredIdentities == {Null, Str(TruncatedText)}

InitFlow ==
  /\ sessionId = Null
  /\ clientId = Null
  /\ activeSession = Null
  /\ currentStep = Null
  /\ \E a \in StoredSessions, b \in StoredIdentities :
       ls = [EmptyStorage EXCEPT !["bill_active_session"] = a, !["bill_session"] = b]
  /\ last = Called("constructor", Undef, Undef)
  /\ useMock \in BOOLEAN
  /\ calls = <<>>
  /\ SessionPreviewConstructor
  /\ DashboardConstructor
  /\ page = "about:blank"
  /\ \E to \in {DashboardPage, PreviewPage} : nav = Navigation(to, "address bar", Null)
  /\ arrival = Null
  /\ appPc = "idle"
  /\ overlay = <<>>
  /\ alertOpen = Null
  /\ redirectTimer = FALSE
  /\ entries = <<Null>>
  /\ current = 1
  /\ notified = <<>>

\* (The session history of the tab is followed in SpecUi only: no handler
\* of the two pages touches window.history.)
\* The browser carries out the pending navigation: a new document, whose
\* scripts construct app and the page's controller and whose
\* DOMContentLoaded handlers run each init up to its first await.  The
\* dashboard script runs on the dashboard page, the preview script on the
\* preview page; the chat and active-session pages are not in this repository.
PageLoad ==
  /\ nav # Null
  /\ page' = nav.to
  /\ arrival' = nav
  /\ nav' = Null
  /\ redirectTimer' = FALSE
  /\ sessionId' = Null
  /\ clientId' = Null
  /\ currentStep' = Null
  /\ appPc' = IF nav.to \in {DashboardPage, PreviewPage} THEN "registering" ELSE "idle"
  /\ dProfile' = Null
  /\ dToday' = Null
  /\ dNutrition' = Null
  /\ dListeners' = FALSE
  /\ dView' = BlankDashboard
  /\ pSteps' = <<>>
  /\ pEquipment' = <<>>
  /\ pListeners' = FALSE
  /\ pView' = BlankPreview
  /\ IF nav.to = DashboardPage
       THEN /\ dPc' = "loading"
            /\ overlay' = showLoading(<<>>, "Loading your day...")
            /\ calls' = <<requestStart(getProfile, useMock),
                          requestStart(getTodaySession, useMock),
                          requestStart(getDailyNutrition, useMock)>>
            /\ alertOpen' = Null
            /\ activeSession' = Null
            /\ pSession' = Null
            /\ pPc' = "idle"
     ELSE IF nav.to = PreviewPage
       THEN LET r == getActiveSession(Null, ls)
                init == sessionPreviewInit(r.ret, useMock)
            IN /\ activeSession' = r.mem
               /\ pSession' = r.ret
               /\ pPc' = init.pc
               /\ alertOpen' = init.alert
               /\ overlay' = init.overlay
               /\ calls' = init.calls
               /\ dPc' = "idle"
     ELSE /\ dPc' = "idle"
          /\ overlay' = <<>>
          /\ calls' = <<>>
          /\ alertOpen' = Null
          /\ activeSession' = Null
          /\ pSession' = Null
          /\ pPc' = "idle"
  /\ last' = Called("load", Str(<<nav.to>>), Undef)
  /\ UNCHANGED <<ls, useMock>>
  /\ UNCHANGED historyVars

\* app.init after the service worker registration has settled:
\* loadSession() and setupNavigation().
AppInit ==
  /\ appPc = "registering"
  /\ alertOpen = Null
  /\ appPc' = "ready"
  /\ sessionId' = loadSession.sessionId
  /\ clientId' = loadSession.clientId
  /\ ls' = loadSession.ls
  /\ last' = Called("BillApp.init", Undef, Undef)
  /\ UNCHANGED <<activeSession, currentStep, apiVars, previewVars, dashVars,
                 page, nav, arrival, overlay, alertOpen, redirectTimer>>
  /\ UNCHANGED historyVars

\* The value a settled call leaves in the Dashboard field it loads.
Loaded(c, op, field) ==
  IF c.req.op = op /\ c.pc = "resolved" THEN c.value ELSE field

\* Promise.all over the promises of the calls: rejected with the first
\* rejection, fulfilled when every one is fulfilled, pending until then.
promiseAll_AllSettled(promises) ==
  IF \E j \in 1..Len(promises) : promises[j].pc \notin {"resolved", "rejected"}
    THEN "pending"
    ELSE "fulfilled"

promiseAll_Race(promises) ==
  IF \E j \in 1..Len(promises) : promises[j].pc = "rejected" THEN "rejected"
  ELSE IF \E j \in 1..Len(promises) : promises[j].pc = "resolved" THEN "fulfilled"
  ELSE "pending"

promiseAll(promises) ==
  IF \E j \in 1..Len(promises) : promises[j].pc = "rejected" THEN "rejected"
  ELSE IF \A j \in 1..Len(promises) : promises[j].pc = "resolved" THEN "fulfilled"
  ELSE "pending"

\* What the await of Dashboard.init sees when a fetch settles: a promise
\* settles once, so an init that has gone on (pc is not "loading") sees
\* nothing more.
awaited_Again(pc, promises) == promiseAll(promises)

awaited(pc, promises) == IF pc = "loading" THEN promiseAll(promises) ELSE "settled"

\* One of the three fetches of Dashboard.init settles: loadProfile,
\* loadTodaySession or loadNutrition assigns its field; the first rejection
\* rejects Promise.all and runs the catch; the last of three successes
\* resolves it and runs render, setupEventListeners and hideLoading, or the
\* catch when render throws.
DashboardFetchSettles ==
  /\ page = DashboardPage
  /\ alertOpen = Null
  /\ \E i \in 1..Len(calls) : \E c \in Settlements(i) :
       LET after == [calls EXCEPT ![i] = c]
           profile == Loaded(c, "getProfile", dProfile)
           todaySession == Loaded(c, "getTodaySession", dToday)
           nutrition == Loaded(c, "getDailyNutrition", dNutrition)
           rendered == dashboardRender(profile, todaySession, nutrition, dView)
       IN /\ calls' = after
          /\ dProfile' = profile
          /\ dToday' = todaySession
          /\ dNutrition' = nutrition
          /\ IF awaited(dPc, after) = "rejected"
               THEN /\ dPc' = "failed"
                    /\ overlay' = hideLoading(overlay)
                    /\ alertOpen' = showError("Failed to load dashboard. Please refresh.")
                    /\ UNCHANGED <<dView, dListeners>>
             ELSE IF awaited(dPc, after) = "fulfilled"
               THEN /\ dView' = rendered.view
                    /\ overlay' = hideLoading(overlay)
                    /\ IF rendered.ok
                         THEN /\ dPc' = "ready"
                              /\ dListeners' = TRUE
                              /\ UNCHANGED alertOpen
                         ELSE /\ dPc' = "failed"
                              /\ alertOpen' =
                                   showError("Failed to load dashboard. Please refresh.")
                              /\ UNCHANGED dListeners
             ELSE UNCHANGED <<dPc, overlay, alertOpen, dView, dListeners>>
          /\ last' = Called("Dashboard.load", Str(<<c.req.op>>), Undef)
  /\ UNCHANGED <<sessionId, clientId, activeSession, currentStep, ls, useMock,
                 previewVars, page, nav, arrival, appPc, redirectTimer>>
  /\ UNCHANGED historyVars

\* dashboard.onStartSession(), through the button's listener or any other
\* caller of the global dashboard.
DashboardOnStartSession ==
  /\ page = DashboardPage
  /\ alertOpen = Null
  /\ IF ~hasSession(dToday)
       THEN /\ alertOpen' = showError("No session available to start")
            /\ UNCHANGED <<sessionId, clientId, activeSession, currentStep, ls, nav>>
       ELSE /\ setActiveSession(Get(dToday, "session"))
            /\ nav' = Navigation(PreviewPage, "Dashboard.onStartSession",
                                 Get(dToday, "session"))
            /\ UNCHANGED alertOpen
  /\ last' = Called("Dashboard.onStartSession", Undef, Undef)
  /\ UNCHANGED <<apiVars, previewVars, dashVars,
                 page, arrival, appPc, overlay, redirectTimer>>
  /\ UNCHANGED historyVars

\* dashboard.onOpenChat()
DashboardOnOpenChat ==
  /\ page = DashboardPage
  /\ alertOpen = Null
  /\ nav' = Navigation(ChatPage, "Dashboard.onOpenChat", Null)
  /\ last' = Called("Dashboard.onOpenChat", Undef, Undef)
  /\ UNCHANGED <<sessionId, clientId, activeSession, currentStep, ls,
                 apiVars, previewVars, dashVars,
                 page, arrival, appPc, overlay, alertOpen, redirectTimer>>
  /\ UNCHANGED historyVars

\* The steps fetch of SessionPreview.init settles: loadSessionSteps assigns
\* the steps and extracts the equipment, then render, setupEventListeners
\* and hideLoading run; a rejection or a throw on the way runs the catch.
\* (The bodies drawn carry an array of steps or no steps.)
PreviewStepsSettle ==
  /\ page = PreviewPage
  /\ alertOpen = Null
  /\ pPc = "loadingSteps"
  /\ \E c \in Settlements(1) :
       LET data == c.value
           steps == OrElse(Get(data, "steps"), Arr(<<>>)).a
           extracted == extractEquipment(pEquipment, steps)
           rendered == previewRender(pSession, steps, extracted.equipment, pView)
           gotData == c.pc = "resolved" /\ CanGet(data)
           done == gotData /\ extracted.ok /\ rendered.ok
       IN /\ calls' = <<c>>
          /\ pSteps' = IF gotData THEN steps ELSE pSteps
          /\ pEquipment' = IF gotData THEN extracted.equipment ELSE pEquipment
          /\ pView' = IF gotData /\ extracted.ok THEN rendered.view ELSE pView
          /\ pListeners' = done
          /\ overlay' = hideLoading(overlay)
          /\ pPc' = IF done THEN "ready" ELSE "failed"
          /\ alertOpen' = IF done THEN Null
                          ELSE showError("Failed to load session. Please try again.")
          /\ last' = Called("SessionPreview.load", Undef, Undef)
  /\ UNCHANGED <<sessionId, clientId, activeSession, currentStep, ls, useMock,
                 pSession, dashVars, page, nav, arrival, appPc, redirectTimer>>
  /\ UNCHANGED historyVars

\* Click on the back button.
PreviewBack ==
  /\ page = PreviewPage
  /\ alertOpen = Null
  /\ pListeners
  /\ nav' = Navigation(DashboardPage, "back-btn", Null)
  /\ last' = Called("back-btn", Undef, Undef)
  /\ UNCHANGED <<sessionId, clientId, activeSession, currentStep, ls,
                 apiVars, previewVars, dashVars,
                 page, arrival, appPc, overlay, alertOpen, redirectTimer>>
  /\ UNCHANGED historyVars

\* Click on the Ask Bill button.
PreviewAskBill ==
  /\ page = PreviewPage
  /\ alertOpen = Null
  /\ pListeners
  /\ ls' = setItem(ls, "chat_context",
             JSONstringify(Obj(<<F("type", Str(<<"session_preview">>)),
                                 F("session_id", Get(pSession, "session_id")),
                                 F("session_name", Get(pSession, "phase"))>>)))
  /\ nav' = Navigation(ChatPage, "ask-bill-btn", Null)
  /\ last' = Called("ask-bill-btn", Undef, Undef)
  /\ UNCHANGED <<sessionId, clientId, activeSession, currentStep,
                 apiVars, previewVars, dashVars,
                 page, arrival, appPc, overlay, alertOpen, redirectTimer>>
  /\ UNCHANGED historyVars

\* Click on the start button: sessionPreview.onStartSession().
PreviewOnStartSession ==
  /\ page = PreviewPage
  /\ alertOpen = Null
  /\ pListeners
  /\ ls' = setItem(ls, "active_session_steps", JSONstringify(Arr(pSteps)))
  /\ nav' = Navigation(ActivePage, "SessionPreview.onStartSession", Null)
  /\ last' = Called("SessionPreview.onStartSession", Undef, Undef)
  /\ UNCHANGED <<sessionId, clientId, activeSession, currentStep,
                 apiVars, previewVars, dashVars,
                 page, arrival, appPc, overlay, alertOpen, redirectTimer>>
  /\ UNCHANGED historyVars

\* The user closes the alert; the code that called alert goes on.  After
\* the alert of a Session Preview without a session, init arms the timer
\* that returns to the dashboard, and returns.
AlertDismissed ==
  /\ alertOpen # Null
  /\ alertOpen' = Null
  /\ IF pPc = "noSessionAlert"
       THEN /\ pPc' = "noSession"
            /\ redirectTimer' = TRUE
       ELSE UNCHANGED <<pPc, redirectTimer>>
  /\ last' = Called("alert", Undef, Undef)
  /\ UNCHANGED <<sessionId, clientId, activeSession, currentStep, ls, apiVars,
                 pSession, pSteps, pEquipment, pListeners, pView, dashVars,
                 page, nav, arrival, appPc, overlay>>
  /\ UNCHANGED historyVars

\* The 2 s timer of the Session Preview without a session fires.
RedirectTimerFires ==
  /\ redirectTimer
  /\ alertOpen = Null
  /\ redirectTimer' = FALSE
  /\ nav' = Navigation(DashboardPage, "redirect timer", Null)
  /\ last' = Called("setTimeout", Undef, Undef)
  /\ UNCHANGED <<sessionId, clientId, activeSession, currentStep, ls,
                 apiVars, previewVars, dashVars,
                 page, arrival, appPc, overlay, alertOpen>>
  /\ UNCHANGED historyVars

NextFlow ==
  \/ PageLoad
  \/ AppInit
  \/ DashboardFetchSettles
  \/ DashboardOnStartSession
  \/ DashboardOnOpenChat
  \/ PreviewStepsSettle
  \/ PreviewBack
  \/ PreviewAskBill
  \/ PreviewOnStartSession
  \/ AlertDismissed
  \/ RedirectTimerFires

SpecFlow == InitFlow /\ [][NextFlow]_vars

\* Weak fairness of PageLoad.  PageLoad is enabled exactly when a navigation
\* is pending and always changes nav, so ENABLED <<PageLoad>>_vars is
\* written as nav # Null.
PageLoadFairness == []<>(nav = Null) \/ []<><<PageLoad>>_vars

\* The browser carries out a pending navigation, the timer fires, and the
\* user closes an alert that is open.
SpecFlowLive ==
  /\ SpecFlow
  /\ PageLoadFairness
  /\ WF_vars(RedirectTimerFires)
  /\ WF_vars(AlertDismissed)

\* A fetch that has been issued settles, and the timer of a mock request
\* fires; the callback runs once no alert blocks the page.  Each condition
\* is the strong fairness of the action, with its enabling condition
\* written out.
FetchPending == \E i \in 1..Len(calls) : Settlements(i) # {}
DashboardSettleFairness ==
  \/ <>[]~(page = DashboardPage /\ alertOpen = Null /\ FetchPending)
  \/ []<><<DashboardFetchSettles>>_vars
PreviewSettleFairness ==
  \/ <>[]~(page = PreviewPage /\ alertOpen = Null /\ pPc = "loadingSteps" /\ FetchPending)
  \/ []<><<PreviewStepsSettle>>_vars

SpecFlowSettling ==
  /\ SpecFlowLive
  /\ DashboardSettleFairness
  /\ PreviewSettleFairness

(***************************************************************************)
(* BillApp's navigation and loading overlay, in a document whose app.init  *)
(* is waiting for the service worker registration or has run.              *)
(***************************************************************************)
\* The URL navigateTo hands to history.pushState: `/${page}`.
pushStateUrl(pg) == <<"/">> \o TemplateString(pg)

\* history.pushState accepts a URL of the document's origin only and throws
\* a SecurityError otherwise.  A URL that starts with two slashes, or a
\* slash and a backslash, names a host.  (Pages are drawn with a leading
\* slash as an atom of its own.)
SameOrigin(url) == ~(Len(url) >= 2 /\ url[2] \in {"/", "\\"})

\* navigateTo(page, pushState) over the session history h and the
\* notifications n: what it leaves, and whether it threw.
navigateTo(pg, pushState, h, c, n) ==
  IF pushState /\ ~SameOrigin(pushStateUrl(pg))
    THEN [thrown |-> TRUE, entries |-> h, current |-> c, notified |-> n]
  ELSE IF pushState
    THEN [thrown |-> FALSE,
          entries |-> Append(SubSeq(h, 1, c), Obj(<<F("page", pg)>>)),
          current |-> c + 1,
          notified |-> Append(n, pg)]
  ELSE [thrown |-> FALSE, entries |-> h, current |-> c, notified |-> Append(n, pg)]

\* The popstate listener of setupNavigation, for the state of the event.
onPopState(state, h, c, n) ==
  IF Truthy(state) /\ Truthy(Get(state, "page"))
    THEN navigateTo(Get(state, "page"), FALSE, h, c, n)
    ELSE [thrown |-> FALSE, entries |-> h, current |-> c, notified |-> n]

\* The pages navigateTo is called with.
Pages == {Str(<<"dashboard">>), Str(<<"/", "dashboard.html">>), Str(<<>>)}
LoadingMessages == {"Loading...", "Loading your day..."}

InitUi ==
  /\ sessionId = Null
  /\ clientId = Null
  /\ activeSession = Null
  /\ currentStep = Null
  /\ ls = EmptyStorage
  /\ last = Called("constructor", Undef, Undef)
  /\ useMock = TRUE
  /\ calls = <<>>
  /\ SessionPreviewConstructor
  /\ DashboardConstructor
  /\ page = ChatPage
  /\ nav = Null
  /\ arrival = Null
  /\ appPc = "registering"
  /\ overlay = <<>>
  /\ alertOpen = Null
  /\ redirectTimer = FALSE
  /\ entries = <<Null>>
  /\ current = 1
  /\ notified = <<>>

\* app.navigateTo(page)
NavigateTo ==
  /\ current <= MaxPushes
  /\ Len(notified) < MaxNotified
  /\ \E pg \in Pages :
       LET r == navigateTo(pg, TRUE, entries, current, notified)
       IN /\ entries' = r.entries
          /\ current' = r.current
          /\ notified' = r.notified
          /\ last' = Called("navigateTo", pg,
                            IF r.thrown THEN Error("SecurityError", <<"pushState">>)
                            ELSE Undef)
  /\ UNCHANGED <<sessionId, clientId, activeSession, currentStep, ls,
                 apiVars, previewVars, dashVars, browserVars>>

\* The user goes back or forward in the session history: the browser makes
\* the entry current and fires popstate with its state; the listener is
\* there once app.init has run setupNavigation.
Traverse ==
  /\ Len(notified) < MaxNotified
  /\ \E to \in {current - 1, current + 1} :
       /\ to \in 1..Len(entries)
       /\ LET r == IF appPc = "ready"
                     THEN onPopState(entries[to], entries, to, notified)
                     ELSE [entries |-> entries, notified |-> notified]
          IN /\ entries' = r.entries
             /\ notified' = r.notified
       /\ current' = to
       /\ last' = Called("popstate", entries[to], Undef)
  /\ UNCHANGED <<sessionId, clientId, activeSession, currentStep, ls,
                 apiVars, previewVars, dashVars, browserVars>>

\* app.showLoading(message)
ShowLoading ==
  /\ \E message \in LoadingMessages :
       /\ overlay' = showLoading(overlay, message)
       /\ last' = Called("showLoading", Str(<<message>>), Undef)
  /\ UNCHANGED <<sessionId, clientId, activeSession, currentStep, ls,
                 apiVars, previewVars, dashVars, historyVars,
                 page, nav, arrival, appPc, alertOpen, redirectTimer>>

\* app.hideLoading()
HideLoading ==
  /\ overlay' = hideLoading(overlay)
  /\ last' = Called("hideLoading", Undef, Undef)
  /\ UNCHANGED <<sessionId, clientId, activeSession, currentStep, ls,
                 apiVars, previewVars, dashVars, historyVars,
                 page, nav, arrival, appPc, alertOpen, redirectTimer>>

NextUi == AppInit \/ NavigateTo \/ Traverse \/ ShowLoading \/ HideLoading

SpecUi == InitUi /\ [][NextUi]_vars

(***************************************************************************)
(* Properties of the app controller (SpecApp).                             *)
(***************************************************************************)

\* C1: a read of a stored blob that is not parseable JSON (loadSession of
\* 'bill_session', getActiveSession of 'bill_active_session', getCurrentStep
\* of 'bill_current_step', each when it reaches storage) yields "absent"
\* and leaves no entry under the key.
C1_CorruptReadRemovesEntry ==
  [][/\ (last'.op = "loadSession" /\ IsCorruptItem(ls["bill_session"]))
          => /\ sessionId' = sessionId
             /\ clientId' = clientId
             /\ ls'["bill_session"] = Null
     /\ (/\ last'.op = "getActiveSession"
         /\ ~Truthy(activeSession)
         /\ IsCorruptItem(ls["bill_active_session"]))
          => /\ last'.ret = Null
             /\ ls'["bill_active_session"] = Null
     /\ (/\ last'.op = "getCurrentStep"
         /\ ~Truthy(currentStep)
         /\ IsCorruptItem(ls["bill_current_step"]))
          => /\ last'.ret = Null
             /\ ls'["bill_current_step"] = Null]_vars

\* C8: right after setActiveSession(S) (setCurrentStep(S)) a call of
\* getActiveSession (getCurrentStep) returns S, in the same instance and in
\* a fresh instance over the same storage; right after clearActiveSession
\* (clearCurrentStep) it returns null in both.
C8_RoundTrip ==
  /\ last.op = "setActiveSession"
       => /\ getActiveSession(activeSession, ls).ret = last.arg
          /\ getActiveSession(Null, ls).ret = last.arg
  /\ last.op = "clearActiveSession"
       => /\ getActiveSession(activeSession, ls).ret = Null
          /\ getActiveSession(Null, ls).ret = Null
  /\ last.op = "setCurrentStep"
       => /\ getCurrentStep(currentStep, ls).ret = last.arg
          /\ getCurrentStep(Null, ls).ret = last.arg
  /\ last.op = "clearCurrentStep"
       => /\ getCurrentStep(currentStep, ls).ret = Null
          /\ getCurrentStep(Null, ls).ret = Null

\* A session object was stored over a corrupt entry and is read back from
\* storage by an instance that does not hold it in memory.
C8_Witness ==
  /\ last.op = "getActiveSession"
  /\ last.ret = SessionB
  /\ ls["bill_active_session"] = Str(JSONstringify(SessionB))
  /\ IsCorruptItem(ls["bill_current_step"])

\* The items of localStorage other than the one under key are as before.
OtherItemsKept(key) == \A k \in LSKeys \ {key} : ls'[k] = ls[k]

\* C20: saveSession leaves the active session and the current step as they
\* are, in memory and in storage; the set, get and clear of the active
\* session leave the session identity and the current step as they are; the
\* set, get and clear of the current step leave the session identity and the
\* active session as they are.
C20_ItemsIndependent ==
  /\ [][last'.op = "saveSession"
          => UNCHANGED <<activeSession, currentStep>> /\ OtherItemsKept("bill_session")]_vars
  /\ [][last'.op \in {"setActiveSession", "getActiveSession", "clearActiveSession"}
          => /\ UNCHANGED <<sessionId, clientId, currentStep>>
             /\ OtherItemsKept("bill_active_session")]_vars
  /\ [][last'.op \in {"setCurrentStep", "getCurrentStep", "clearCurrentStep"}
          => /\ UNCHANGED <<sessionId, clientId, activeSession>>
             /\ OtherItemsKept("bill_current_step")]_vars

\* The active session has just been cleared while a session identity and a
\* current step are held in memory and in storage.
C20_Witness ==
  /\ last.op = "clearActiveSession"
  /\ activeSession = Null /\ ls["bill_active_session"] = Null
  /\ sessionId # Null /\ ls["bill_session"] # Null
  /\ currentStep = SessionB
  /\ ls["bill_current_step"] = Str(JSONstringify(SessionB))

\* C21: right after clearSession the session identity is absent from
\* memory and from storage, and getActiveSession returns null, in the
\* instance that cleared and in a fresh instance over the same storage.
C21_ClearSessionLeavesNoneActive ==
  last.op = "clearSession"
    => /\ sessionId = Null /\ clientId = Null
       /\ ls["bill_session"] = Null
       /\ getActiveSession(activeSession, ls).ret = Null
       /\ getActiveSession(Null, ls).ret = Null

\* C23: whenever the active session held in memory is not null,
\* localStorage holds its serialization under bill_active_session, and
\* whenever the current step held in memory is not null, localStorage holds
\* its serialization under bill_current_step.
C23_MemoryMatchesStorage ==
  /\ activeSession # Null
       => ls["bill_active_session"] = Str(JSONstringify(activeSession))
  /\ currentStep # Null
       => ls["bill_current_step"] = Str(JSONstringify(currentStep))

\* getCurrentStep has returned the current step while an active session is
\* held and a session identity has been saved.
C23_Witness ==
  /\ last.op = "getCurrentStep"
  /\ last.ret = SessionB
  /\ currentStep = SessionB
  /\ activeSession = SessionA
  /\ sessionId # Null
  /\ ls["bill_active_session"] = Str(JSONstringify(SessionA))

(***************************************************************************)
(* Properties of the API client (SpecApi).                                 *)
(***************************************************************************)
Settled(c) == c.pc \in {"resolved", "rejected"}
MockMiss(c) ==
  /\ c.pc = "rejected"
  /\ c.value = Error("Error", <<"Mock data not found for: ">> \o c.req.endpoint)

\* C2: in mock mode getSessionSteps('does-not-exist'), endpoint
\* /sessions/does-not-exist/steps, fails with 'Mock data not found'; it
\* never resolves.
C2_UnknownSessionStepsFail ==
  \A i \in 1..Len(calls) :
    (/\ useMock
     /\ calls[i].req = getSessionSteps(Str(<<"does-not-exist">>))
     /\ Settled(calls[i]))
      => MockMiss(calls[i])

\* The number of steps of a segment in a steps response.
CountSegment(steps, segment) ==
  Cardinality({k \in 1..Len(steps.a) :
                 Get(steps.a[k], "segment_type") = Str(<<segment>>)})

TodayAndItsSteps(i, j) ==
  /\ useMock
  /\ calls[i].req = getTodaySession
  /\ calls[i].pc = "resolved"
  /\ calls[j].req = getSessionSteps(Get(Get(calls[i].value, "session"), "session_id"))
  /\ calls[j].pc = "resolved"

\* C4: for the session the today-session endpoint returns, the steps
\* endpoint for that session id returns as many warmup, main and cooldown
\* steps as stepCount reports, and no other steps.
C4_StepCountsMatch ==
  \A i, j \in 1..Len(calls) :
    TodayAndItsSteps(i, j)
      => LET stepCount == Get(calls[i].value, "stepCount")
             steps == Get(calls[j].value, "steps")
         IN /\ CountSegment(steps, "warmup") = Get(stepCount, "warmup").n
            /\ CountSegment(steps, "main") = Get(stepCount, "main").n
            /\ CountSegment(steps, "cooldown") = Get(stepCount, "cooldown").n
            /\ Len(steps.a) = Get(stepCount, "warmup").n + Get(stepCount, "main").n
                                + Get(stepCount, "cooldown").n

C4_Witness == \E i, j \in 1..Len(calls) : TodayAndItsSteps(i, j)

\* C9: in mock mode a settled call either resolved with the fixture of its
\* path (today's session, the steps, the profile, the nutrition targets, the
\* bests) or failed with the error naming its endpoint; it never resolved
\* with a falsy or empty value; the operations without a fixture fail.
C9_MockFixtureOrMiss ==
  \A i \in 1..Len(calls) :
    (useMock /\ Settled(calls[i]))
      => LET c == calls[i]
         IN /\ CASE c.req.op = "getTodaySession" ->
                      /\ c.pc = "resolved"
                      /\ Get(c.value, "session") = MOCK_todaySession
                      /\ HasField(c.value, "stepCount")
                 [] c.req.op = "getSessionSteps" ->
                      /\ c.pc = "resolved"
                      /\ Get(c.value, "steps") = MOCK_sessionSteps
                 [] c.req.op = "getProfile" -> c.pc = "resolved" /\ c.value = MOCK_profile
                 [] c.req.op = "getDailyNutrition" ->
                      c.pc = "resolved" /\ c.value = MOCK_nutrition
                 [] c.req.op = "getBests" -> c.pc = "resolved" /\ c.value = MOCK_bests
                 [] OTHER -> MockMiss(c)
            /\ c.pc = "resolved"
                 => /\ Truthy(c.value)
                    /\ c.value \notin {Obj(<<>>), Arr(<<>>)}

\* An operation without a fixture, called with a session id that ends in
\* "/steps", has failed.
C9_Witness ==
  \E i \in 1..Len(calls) :
    /\ useMock
    /\ calls[i].req = logStep(Str(<<"x", "/steps">>), StepResult)
    /\ MockMiss(calls[i])

\* C10: a call makes one transport attempt (one fetch, issued when the call
\* is made, or one mock lookup, made when the delay is over); a response
\* whose status is not a success, or a failure of fetch, ends the call in a
\* failure (carrying the status when there is one) with no second attempt;
\* every call makes its own attempt.
C10_OneAttemptPerCall ==
  \A i \in 1..Len(calls) :
    LET c == calls[i]
    IN /\ c.attempts = (IF c.pc = "mockDelay" THEN 0 ELSE 1)
       /\ (c.got # Undef /\ c.got.kind = "network")
            => c.pc = "rejected" /\ c.value = Error("TypeError", <<"Failed to fetch">>)
       /\ (c.got # Undef /\ c.got.kind = "response" /\ ~ResponseOk(c.got))
            => /\ c.pc = "rejected"
               /\ Includes(c.value.message, <<NumTok(c.got.status)>>)

\* The same request made twice: the first call failed with status 500 and
\* the second one, having made its own attempt, succeeded.
C10_Witness ==
  /\ Len(calls) = 2
  /\ calls[1].req = calls[2].req
  /\ calls[1].pc = "rejected"
  /\ calls[1].got = Response(500, "Internal Server Error", <<>>)
  /\ calls[2].pc = "resolved"
  /\ calls[2].attempts = 1

(***************************************************************************)
(* Properties of the Session Preview's derivations (SpecPreview).          *)
(***************************************************************************)
RECURSIVE IsSubsequence(_, _)
IsSubsequence(g, s) ==
  IF g = <<>> THEN TRUE
  ELSE IF s = <<>> THEN FALSE
  ELSE IF Head(g) = Head(s) THEN IsSubsequence(Tail(g), Tail(s))
  ELSE IsSubsequence(g, Tail(s))

IncreasingOrder(s) ==
  /\ \A i \in 1..Len(s) : Get(s[i], "step_order").t = "num"
  /\ \A i, j \in 1..Len(s) :
       i < j => Get(s[i], "step_order").n < Get(s[j], "step_order").n

\* The steps listed under a segment.
Listed(segment) ==
  IF pView.lists[segment].kind = "list"
    THEN [i \in 1..Len(pView.lists[segment].items) |-> pView.lists[segment].items[i].step]
    ELSE <<>>

\* C5: after render, the steps listed under warmup, main and cooldown are
\* each a subsequence of the step list, a listed step has the segment it is
\* listed under, the three lists together hold as many steps as the step
\* list has steps of these three segments, and for a step list in strictly
\* increasing step_order each list is in increasing step_order.
C5_GroupingKeepsOrder ==
  pPc = "rendered"
    => /\ \A g \in Segments :
            /\ IsSubsequence(Listed(g), pSteps)
            /\ \A i \in 1..Len(Listed(g)) :
                 Get(Listed(g)[i], "segment_type") = Str(<<g>>)
            /\ IncreasingOrder(pSteps) => IncreasingOrder(Listed(g))
       /\ Len(Listed("warmup")) + Len(Listed("main")) + Len(Listed("cooldown"))
            = Cardinality({i \in 1..Len(pSteps) :
                             \E g \in Segments :
                               Get(pSteps[i], "segment_type") = Str(<<g>>)})

\* A rendered list of three steps in increasing order: main, a step of no
\* displayed segment, main.
C5_Witness ==
  /\ pPc = "rendered"
  /\ pSteps = <<DrawnStep(1, "main"), DrawnStep(2, "stretch"), DrawnStep(3, "main")>>
  /\ Listed("main") = <<DrawnStep(1, "main"), DrawnStep(3, "main")>>
  /\ pView.lists["warmup"] = NoExercises

(***************************************************************************)
(* Properties of the pages in the browser (SpecFlow, SpecFlowLive).        *)
(***************************************************************************)
\* C3: a call of Dashboard.onStartSession while todaySession is null or has
\* no session opens the error alert and changes neither the active session
\* in memory, nor localStorage, nor the pending navigation, nor the page;
\* and the start handler of the Session Preview fires only on a preview
\* whose init found a session, whose steps fetch has resolved and whose
\* steps are the ones that fetch delivered.
C3_StartNeedsSession ==
  [][/\ (/\ last'.op = "Dashboard.onStartSession"
         /\ (dToday = Null \/ ~Truthy(Get(dToday, "session"))))
          => /\ alertOpen' = showError("No session available to start")
             /\ activeSession' = activeSession
             /\ ls' = ls
             /\ nav' = nav
             /\ page' = page
     /\ last'.op = "SessionPreview.onStartSession"
          => /\ Truthy(pSession)
             /\ pPc = "ready"
             /\ Len(calls) = 1
             /\ calls[1].req.op = "getSessionSteps"
             /\ calls[1].pc = "resolved"
             /\ Arr(pSteps) = OrElse(Get(calls[1].value, "steps"), Arr(<<>>))
             /\ nav'.to = ActivePage
             /\ getItem(ls', "active_session_steps") = Str(JSONstringify(Arr(pSteps)))
    ]_vars

\* The start handler of a preview has fired, and later, on a dashboard that
\* loaded a response without a session, onStartSession has been refused.
C3_Witness ==
  /\ page = DashboardPage
  /\ dPc = "ready"
  /\ dToday = Obj(<<F("session", Null)>>)
  /\ last.op = "Dashboard.onStartSession"
  /\ alertOpen = showError("No session available to start")
  /\ nav = Null
  /\ getItem(ls, "active_session_steps") # Null

NoSessionPcs == {"noSessionAlert", "noSession"}

\* C6: a Session Preview takes the no-session path exactly when
\* getActiveSession finds no session in storage; on that path the error
\* alert is shown, no call is issued, no overlay is shown, no handler is
\* registered, once the alert is closed the return to the dashboard is
\* pending, and the dashboard is eventually loaded by that return.
C6_NoSessionRedirects ==
  /\ [](page = PreviewPage =>
          /\ pPc \in NoSessionPcs <=> ~Truthy(getActiveSession(Null, ls).ret)
          /\ pPc = "noSessionAlert" =>
               alertOpen = showError("No session selected. Returning to dashboard.")
          /\ pPc \in NoSessionPcs =>
               /\ calls = <<>>
               /\ overlay = <<>>
               /\ ~pListeners
          /\ pPc = "noSession" =>
               \/ redirectTimer
               \/ (nav # Null /\ nav.to = DashboardPage /\ nav.cause = "redirect timer"))
  /\ (page = PreviewPage /\ pPc = "noSessionAlert")
       ~> (page = DashboardPage /\ arrival.cause = "redirect timer")

\* The dashboard reached by the timer of a preview that found a truncated
\* text in storage.
C6_Witness ==
  /\ page = DashboardPage
  /\ arrival.cause = "redirect timer"
  /\ getItem(ls, "bill_active_session") = Str(TruncatedText)

\* C7: while the navigation issued by Dashboard.onStartSession is pending,
\* the session S of the loaded todaySession is the active session in memory
\* and its serialization is in localStorage; and the Session Preview loaded
\* by that navigation has S as its session and does not take the
\* no-session path.
C7_StartHandsOverSession ==
  /\ (nav # Null /\ nav.cause = "Dashboard.onStartSession") =>
       /\ page = DashboardPage
       /\ nav.to = PreviewPage
       /\ nav.carried = Get(dToday, "session")
       /\ activeSession = nav.carried
       /\ getItem(ls, "bill_active_session") = Str(JSONstringify(nav.carried))
  /\ (page = PreviewPage /\ arrival.cause = "Dashboard.onStartSession") =>
       /\ pSession = arrival.carried
       /\ activeSession = arrival.carried
       /\ pPc \notin NoSessionPcs

\* A preview loaded by the dashboard's Start Session has rendered the
\* session handed over.
C7_Witness ==
  /\ page = PreviewPage
  /\ arrival.cause = "Dashboard.onStartSession"
  /\ arrival.carried = SessionA
  /\ pSession = SessionA
  /\ pPc = "ready"

(***************************************************************************)
(* Properties of the Session Preview's texts (SpecPreview).                *)
(***************************************************************************)
\* A member the step declares with a number.
Declares(step, key) == Get(step, key).t = "num"

\* The minutes a step stands for, in sixtieths: its duration_value when it
\* has one, else (30 + rest_seconds) * sets / 60 when it has sets and
\* rest_seconds, else nothing.
DeclaredSixtieths(step) ==
  IF Declares(step, "duration_value") THEN 60 * Get(step, "duration_value").n
  ELSE IF Declares(step, "sets") /\ Declares(step, "rest_seconds")
    THEN (30 + Get(step, "rest_seconds").n) * Get(step, "sets").n
  ELSE 0

RECURSIVE SumSixtieths(_)
SumSixtieths(steps) ==
  IF steps = <<>> THEN 0
  ELSE DeclaredSixtieths(Head(steps)) + SumSixtieths(Tail(steps))

StepsOf(segment) ==
  SelectSeq(pSteps, LAMBDA step : Get(step, "segment_type") = Str(<<segment>>))

\* C11: after render, a segment that has steps shows "~N min", N the sum of
\* its steps' minutes rounded with halves up, when that sum is positive,
\* and shows no estimate when it is not.
C11_DurationEstimate ==
  pPc = "rendered" =>
    \A g \in Segments :
      StepsOf(g) # <<>> =>
        LET total == SumSixtieths(StepsOf(g))
        IN pView.durations[g] =
             IF total > 0 THEN <<"~", ToString((total + 30) \div 60), " min">>
             ELSE <<>>

\* The keywords that stand for each equipment label.
Keywords ==
  [label \in {"Barbell", "Dumbbells", "Machines", "Resistance Bands",
              "Cardio Equipment", "Bench/Box"} |->
     CASE label = "Barbell" -> {<<"Barbell">>}
       [] label = "Dumbbells" -> {<<"Dumbbell">>}
       [] label = "Machines" -> {<<"Machine">>, <<"Leg", " ", "Curl">>}
       [] label = "Resistance Bands" -> {<<"Band">>}
       [] label = "Cardio Equipment" -> {<<"Bike">>, <<"Assault", " ", "Bike">>}
       [] label = "Bench/Box" -> {<<"Box">>, <<"Bulgarian">>}]

\* The labels whose keywords some step's name contains.
MatchedLabels(steps) ==
  {label \in DOMAIN Keywords :
     \E i \in 1..Len(steps) : \E keyword \in Keywords[label] :
       /\ Get(steps[i], "exercise_name").t = "str"
       /\ Includes(Get(steps[i], "exercise_name").s, keyword)}

\* C12: after one run of the inference and after a second one over the same
\* steps, the equipment holds each label at most once and holds exactly the
\* labels matched by the steps: a second run changes nothing.
C12_EquipmentIdempotent ==
  pPc \in {"equipped", "equippedAgain"} =>
    /\ \A i, j \in 1..Len(pEquipment) : pEquipment[i] = pEquipment[j] => i = j
    /\ {pEquipment[i] : i \in 1..Len(pEquipment)} = MatchedLabels(pSteps)

\* Two runs over three steps, two of which match Barbell and one of which
\* matches Machines by either keyword.
C12_Witness ==
  /\ pPc = "equippedAgain"
  /\ Len(pSteps) = 3
  /\ Get(pSteps[1], "exercise_name") = Str(<<"Barbell", " Back Squat">>)
  /\ Get(pSteps[2], "exercise_name") = Str(<<"Barbell", " ", "Box", " Squat">>)
  /\ Get(pSteps[3], "exercise_name") = Str(<<"Leg Press ", "Machine">>)
  /\ pEquipment = <<"Barbell", "Bench/Box", "Machines">>

Has(step, key) == Get(step, key).t \notin {"undefined", "null"}
Shown(v) == IF v.t = "num" THEN <<ToString(v.n)>> ELSE v.s

\* The parts of the display string of a step, in their order.
DetailParts(step) ==
  (IF Has(step, "sets") /\ Has(step, "reps")
     THEN <<Shown(Get(step, "sets")) \o <<" x ">> \o Shown(Get(step, "reps"))>>
   ELSE IF Get(step, "duration_type") = Str(<<"time">>) /\ Has(step, "duration_value")
     THEN <<Shown(Get(step, "duration_value")) \o <<" min">>>>
   ELSE <<>>)
  \o (IF Has(step, "load_kg")
        THEN <<Shown(Get(step, "load_kg")) \o <<"kg">>>> ELSE <<>>)
  \o (IF Has(step, "target_value")
          /\ ~Includes(Shown(Get(step, "target_value")), <<"undefined">>)
        THEN <<Shown(Get(step, "target_value"))>> ELSE <<>>)

RECURSIVE Bulleted(_)
Bulleted(parts) ==
  IF Len(parts) = 1 THEN parts[1]
  ELSE parts[1] \o <<" . ">> \o Bulleted(Tail(parts))

\* C16: after render, the detail shown for each listed step is its parts
\* (sets x reps or else the timed duration; the load when load_kg is
\* present; the target when present and free of the placeholder) joined by
\* bullets, or 'As prescribed' when it has no part.
C16_ExerciseDetail ==
  pPc = "rendered" =>
    \A g \in Segments :
      pView.lists[g].kind = "list" =>
        \A i \in 1..Len(pView.lists[g].items) :
          pView.lists[g].items[i].detail =
            IF DetailParts(pView.lists[g].items[i].step) = <<>>
              THEN <<"As prescribed">>
              ELSE Bulleted(DetailParts(pView.lists[g].items[i].step))

(***************************************************************************)
(* Properties of Dashboard.init (SpecFlow).                                *)
(***************************************************************************)
DashboardError == showError("Failed to load dashboard. Please refresh.")
Rejected(cs) == \E i \in 1..Len(cs) : cs[i].pc = "rejected"

\* C13: on the dashboard, once one of the three fetches has failed the init
\* has failed, the page is as delivered (render has written nothing) and no
\* button handler is registered, whatever the other two fetches do; and the
\* step in which the first fetch fails removes the overlay and opens the
\* alert of the dashboard-load error.
C13_SingleFailurePath ==
  /\ [](page = DashboardPage /\ Rejected(calls)
          => dPc = "failed" /\ dView = BlankDashboard /\ ~dListeners)
  /\ [][page = DashboardPage /\ page' = DashboardPage
          /\ ~Rejected(calls) /\ Rejected(calls')
          => alertOpen = Null /\ alertOpen' = DashboardError /\ overlay' = <<>>]_vars

\* The nutrition fetch has failed, the other two have delivered a profile
\* and a session with its counts, and nothing is rendered.
C13_Witness ==
  /\ page = DashboardPage
  /\ Len(calls) = 3
  /\ calls[1].pc = "resolved" /\ calls[2].pc = "resolved" /\ calls[3].pc = "rejected"
  /\ Truthy(dProfile)
  /\ Truthy(Get(dToday, "session")) /\ CanGet(Get(dToday, "stepCount"))
  /\ dPc = "failed"
  /\ dView = BlankDashboard

\* C14: on the dashboard the three fetches are in flight together before
\* the first of them settles; something is rendered only when all three have
\* succeeded; and a completed init holds the three delivered values and the
\* view that render makes of them, whichever fetch settled last.
C14_ConcurrentFetchesJoined ==
  /\ [][page = DashboardPage /\ last'.op = "Dashboard.load"
          /\ (\A i \in 1..Len(calls) : calls[i].pc \notin {"resolved", "rejected"})
          => /\ Len(calls) = 3
             /\ calls[1].req = getProfile
             /\ calls[2].req = getTodaySession
             /\ calls[3].req = getDailyNutrition]_vars
  /\ [](page = DashboardPage /\ (dView # BlankDashboard \/ dPc = "ready")
          => \A i \in 1..3 : calls[i].pc = "resolved")
  /\ [](page = DashboardPage /\ dPc = "ready"
          => /\ dProfile = calls[1].value
             /\ dToday = calls[2].value
             /\ dNutrition = calls[3].value
             /\ dView = dashboardRender(calls[1].value, calls[2].value,
                                        calls[3].value, BlankDashboard).view)

\* A completed init whose profile fetch settled last, after the other two.
C14_Witness ==
  /\ page = DashboardPage
  /\ dPc = "ready"
  /\ last = Called("Dashboard.load", Str(<<"getProfile">>), Undef)
  /\ dView # BlankDashboard

\* C18: on a dashboard whose init has completed, when the response to
\* getTodaySession carries a session the start button is shown and the
\* session details are displayed, and when it carries none the start button
\* is hidden and the 'no session scheduled' message is displayed.
C18_StartButtonMatchesSession ==
  page = DashboardPage /\ dPc = "ready" =>
    IF CanGet(dToday) /\ Get(dToday, "session").t \notin {"undefined", "null"}
      THEN dView.startBtn = "block" /\ dView.details.kind = "session"
      ELSE dView.startBtn = "none" /\ dView.details = NoSessionDetails

\* A completed init whose response carried session: null.
C18_Witness ==
  /\ page = DashboardPage
  /\ dPc = "ready"
  /\ dToday = Obj(<<F("session", Null)>>)
  /\ dView.startBtn = "none"

\* C24: the alert of the dashboard-load error is opened only by the step
\* that takes the init from loading to failed, so once per init; a fetch
\* that settles after the init has failed, by success or by failure,
\* changes neither the view nor the listeners and opens no alert; and a
\* failed init stays failed until the next page load.
C24_OneErrorPerInit ==
  /\ [][alertOpen' = DashboardError /\ alertOpen # DashboardError
          => dPc = "loading" /\ dPc' = "failed"]_vars
  /\ [][dPc = "failed" /\ last'.op = "Dashboard.load"
          => UNCHANGED <<dPc, dView, dListeners, alertOpen, overlay>>]_vars
  /\ [][dPc = "failed" => dPc' = "failed" \/ last'.op = "load"]_vars

\* The profile and nutrition fetches have both failed, today's session has
\* arrived after the failure was reported, the one alert has been closed,
\* and nothing is rendered.
C24_Witness ==
  /\ page = DashboardPage
  /\ Len(calls) = 3
  /\ calls[1].pc = "rejected" /\ calls[3].pc = "rejected" /\ calls[2].pc = "resolved"
  /\ last = Called("Dashboard.load", Str(<<"getTodaySession">>), Undef)
  /\ dPc = "failed"
  /\ alertOpen = Null
  /\ dView = BlankDashboard
  /\ ~dListeners

(***************************************************************************)
(* Properties of SessionPreview.init (SpecFlow).                           *)
(***************************************************************************)
\* C15: in mock mode, a Session Preview that found an active session and
\* whose steps request has settled holds the steps of the fixture, has
\* rendered a list for each of the three segments and the equipment, has
\* removed the overlay and has opened no alert.
C15_MockPreviewLoads ==
  useMock /\ page = PreviewPage /\ Truthy(pSession) /\ pPc # "loadingSteps"
    => /\ pPc = "ready"
       /\ pSteps = MOCK_sessionSteps.a
       /\ \A g \in Segments :
            pView.lists[g].kind = "list" /\ pView.lists[g].items # <<>>
       /\ pView.equipmentList # <<>>
       /\ overlay = <<>>
       /\ alertOpen = Null

(***************************************************************************)
(* Properties of the loading overlay and of navigation (SpecUi).           *)
(***************************************************************************)
\* C17: the document never holds more than one loading overlay; a call of
\* showLoading leaves exactly one, with the message of the call; a call of
\* hideLoading leaves none, and changes nothing when there was none.
C17_AtMostOneOverlay ==
  /\ [](Len(overlay) <= 1)
  /\ [][last'.op = "showLoading" => overlay' = last'.arg.s]_vars
  /\ [][last'.op = "hideLoading"
          => /\ overlay' = <<>>
             /\ overlay = <<>> => UNCHANGED <<sessionId, clientId, activeSession,
                                              currentStep, ls, apiVars, previewVars,
                                              dashVars, browserVars, historyVars>>]_vars

\* showLoading has been called, and the one overlay carries its message.
C17_Witness ==
  /\ last = Called("showLoading", Str(<<"Loading your day...">>), Undef)
  /\ overlay = <<"Loading your day...">>

Tagged(pg) == Obj(<<F("page", pg)>>)
CarriesPage(state) == state.t = "obj" /\ Get(state, "page").t # "undefined"

\* C19: a call of navigateTo with any page adds one history entry tagged
\* with the page after the current one, makes it current, and emits one
\* notification for the page; once app.init has run, a popstate whose
\* state carries a page emits one notification for that page and a popstate
\* whose state carries none emits nothing, and neither adds a history entry.
C19_NavigationBookkeeping ==
  /\ [][last'.op = "navigateTo"
          => /\ entries' = Append(SubSeq(entries, 1, current), Tagged(last'.arg))
             /\ current' = current + 1
             /\ notified' = Append(notified, last'.arg)]_vars
  /\ [][last'.op = "popstate" /\ appPc = "ready"
          => /\ entries' = entries
             /\ notified' = IF CarriesPage(last'.arg)
                              THEN Append(notified, Get(last'.arg, "page"))
                              ELSE notified]_vars

(***************************************************************************)
(* Properties of the two inits together (SpecFlowSettling).                *)
(***************************************************************************)
\* C22: a Dashboard.init or SessionPreview.init that has ended, by success,
\* by a failed fetch or by a throw while rendering, has left no loading
\* overlay in its document; and a loading overlay that is shown is
\* eventually gone.
C22_OverlayHiddenAtEnd ==
  /\ [](page = DashboardPage /\ dPc \in {"ready", "failed"} => overlay = <<>>)
  /\ [](page = PreviewPage /\ pPc \in {"ready", "failed"} => overlay = <<>>)
  /\ (overlay # <<>>) ~> (overlay = <<>>)

\* A Session Preview whose render threw: the steps are held, no listener is
\* registered, the error is shown, and the overlay is gone.
C22_Witness ==
  /\ page = PreviewPage
  /\ pPc = "failed"
  /\ pSteps # <<>>
  /\ alertOpen = showError("Failed to load session. Please try again.")
  /\ overlay = <<>>

=============================================================================
